---- MODULE Spec2Model ----
(***************************************************************************)
(* File-level debt index of the technical-debt VS Code extension:          *)
(* FileDebtIndex (TTL cache, implicit project resolution, change event)    *)
(* on top of DebtService (response cache) and the backend.                 *)
(*                                                                         *)
(* Time is counted in ticks of one minute.  Strings that the code takes    *)
(* apart (paths) are tuples of one-character strings.                      *)
(*                                                                         *)
(* One step of the model is one run-to-completion piece of the event loop: *)
(* a call runs up to its first await on a pending promise; an await on an  *)
(* already settled promise continues in the same step.                     *)
(***************************************************************************)
EXTENDS Integers, Sequences, FiniteSets, TLC

(* ------------------------------ bounds --------------------------------- *)
MaxNow == 2
MaxEvents == 2

(* ------------------------- program constants --------------------------- *)
\* private ttlMs = 120 * 1000, in minutes
ttlMs == 2
\* private cacheTimeout = 5 * 60 * 1000, in minutes
cacheTimeout == 5

Null == "<null>"
\* process.platform of the extension host the model runs
platform == "win32"
\* places for the calls that are suspended at an await
Slots == 1..MaxEvents

VARIABLES
    now,                 \* Date.now()
    workspaceFolders,    \* vscode.workspace.workspaceFolders (fsPath of each)
    workspaceProjectId,  \* FileDebtIndex.workspaceProjectId
    ensuringProject,     \* FileDebtIndex.ensuringProject: "none" | "pending" | "settled_null"
    resolver,            \* position of the async body started in ensureProject
    cache,               \* FileDebtIndex.cache, a Map in insertion order
    svcCache,            \* DebtService.cache, the fileDebts:* keys
    backendProjects,     \* ids of the backend's projects for the workspace root
    backendDebts,        \* backend: status of the debt of each file ("none": no debt)
    calls,               \* the calls of FileDebtIndex methods that are suspended at an await
    io,                  \* gateway calls issued and gateway answers received in the last step
    fired,               \* number of changeEmitter.fire() in the last step
    ret,                 \* what the last step returned to a caller of a public method
    epoch,               \* gateway calls counted over the project resolution in flight
    started,             \* number of calls and outside events so far
    viewMode,            \* TechnicalDebtProvider.viewMode
    enabled,             \* InlineDebtDecorator.enabled
    activeEditor,        \* the file of vscode.window.activeTextEditor, or Null
    stale,               \* the views the editor has been told to ask again: "tree", "lens"
    notified,            \* the views refreshed in the last step: "tree", "lens", "decorator"
    cont,                \* who awaits the suspended call of each place
    command,             \* the mark-status command under way, or the last one
    lenses,              \* what provideCodeLenses returned in the last step
    requested,           \* per file, when its debts were last requested since the last command (-1: not yet)
    autoRefreshRunning,  \* activate(): let autoRefreshRunning, the flag of the refresh timer
    timerReady,          \* the timer callback is ready to go on after its await of refreshAllCached
    refreshTimer,        \* activate(): let refreshTimerHandle, and the interval timers that are active
    tree,                \* the getChildren call of the tree under way, and what the last one returned
    decorations          \* per file, the decorations its editor shows: severity and zero-based line

coreVars == <<now, workspaceFolders, workspaceProjectId, ensuringProject,
              resolver, cache, svcCache, backendProjects, backendDebts, calls, io,
              fired, ret, epoch, started>>

\* the refresh timer and the root items of the tree
timerVars == <<autoRefreshRunning, timerReady, refreshTimer>>

viewVars == <<viewMode, enabled, activeEditor, stale, notified, cont, command,
              lenses, requested, timerVars, tree, decorations>>

vars == <<coreVars, viewVars>>

(* ------------------------------ strings -------------------------------- *)
LowerChar(c) ==
    CASE c = "A" -> "a"
      [] c = "B" -> "b"
      [] c = "W" -> "w"
      [] OTHER -> c

\* String.prototype.toLowerCase on a tuple of characters
ToLowerCase(p) == [i \in 1..Len(p) |-> LowerChar(p[i])]

\* rawPath.replace(/\\/g, '/')
BackToSlash(p) == [i \in 1..Len(p) |-> IF p[i] = "\\" THEN "/" ELSE p[i]]

\* s.replace(/\//g, '\\')
SlashToBack(p) == [i \in 1..Len(p) |-> IF p[i] = "/" THEN "\\" ELSE p[i]]

RECURSIVE CollapseRuns(_, _)
\* replace every run of the character sepc by a single one
CollapseRuns(p, sepc) ==
    IF Len(p) <= 1 THEN p
    ELSE IF p[1] = sepc /\ p[2] = sepc THEN CollapseRuns(Tail(p), sepc)
    ELSE <<p[1]>> \o CollapseRuns(Tail(p), sepc)

RECURSIVE StripTrailing(_, _)
\* s.replace(/\/+$/g, '')
StripTrailing(p, sepc) ==
    IF Len(p) > 0 /\ p[Len(p)] = sepc
    THEN StripTrailing(SubSeq(p, 1, Len(p) - 1), sepc)
    ELSE p

RECURSIVE StripLeading(_, _)
\* s.replace(/^\/+/, '')
StripLeading(p, sepc) ==
    IF Len(p) > 0 /\ p[1] = sepc THEN StripLeading(Tail(p), sepc) ELSE p

StartsWith(p, q) == Len(q) <= Len(p) /\ SubSeq(p, 1, Len(q)) = q

\* faulty variant of normalizePathOn: the case of the letters is kept on
\* every platform
normalizePathKeepingCase(plat, rawPath) ==
    StripTrailing(CollapseRuns(BackToSlash(rawPath), "/"), "/")

\* FileDebtIndex.normalizePath on platform plat
normalizePathOn(plat, rawPath) ==
    LET n1 == BackToSlash(rawPath)
        n2 == CollapseRuns(n1, "/")
        n3 == StripTrailing(n2, "/")
    IN IF plat = "win32" THEN ToLowerCase(n3) ELSE n3

normalizePath(rawPath) == normalizePathOn(platform, rawPath)

\* node path.sep
Sep(plat) == IF plat = "win32" THEN "\\" ELSE "/"

\* node path.isAbsolute, for paths without drive letters
pathIsAbsolute(plat, p) ==
    /\ Len(p) > 0
    /\ IF plat = "win32" THEN p[1] \in {"/", "\\"} ELSE p[1] = "/"

\* node path.normalize, for non-empty paths without "." and ".." segments
pathNormalize(plat, p) ==
    IF plat = "win32"
    THEN CollapseRuns(SlashToBack(p), "\\")
    ELSE CollapseRuns(p, "/")

\* node path.join(a, b)
pathJoin(plat, a, b) == pathNormalize(plat, a \o <<Sep(plat)>> \o b)

(* ------------------------------- world --------------------------------- *)
\* the two source files of the workspace, by their name below the root
Files == {"a", "B"}

\* fsPath of the workspace root on platform plat
FolderPath(plat) == <<Sep(plat), "w">>

\* document.uri.fsPath of file f
FsPath(plat, f) == FolderPath(plat) \o <<Sep(plat), f>>

\* the documents the editor can hand to the index: two files on disk, an
\* output channel (scheme "output"), a file-scheme uri that carries the
\* "extension-output-" marker, a remote document, a user-data document and
\* an unsaved one (scheme "untitled")
Documents(plat) ==
    [scheme : {"file"}, fsPath : {FsPath(plat, f) : f \in Files}, outputMarker : {FALSE}]
    \cup {[scheme |-> "output", fsPath |-> <<Sep(plat), "o">>, outputMarker |-> TRUE],
          [scheme |-> "file", fsPath |-> <<Sep(plat), "o">>, outputMarker |-> TRUE]}
    \cup [scheme : {"vscode-remote", "vscode-userdata", "untitled"},
          fsPath : {FsPath(plat, "a")}, outputMarker : {FALSE}]

FileDocuments(plat) == {doc \in Documents(plat) : doc.scheme = "file" /\ ~doc.outputMarker}

\* the TextDocument of file f
DocOf(f) == [scheme |-> "file", fsPath |-> FsPath(platform, f), outputMarker |-> FALSE]

\* other spellings of the files' paths, as callers of getCachedDebtsByPath
\* and backends produce them
Spellings(plat) ==
    {<<"/", "w", "/", "/", "a", "/">>, <<"\\", "W", "\\", "B">>}

\* faulty variant of Truthy: only the empty string counts as missing
TruthyUnlessEmpty(id) == id # ""

\* a value that JavaScript treats as true in `if (id)` / `!id`
Truthy(id) == id # Null /\ id # ""

\* statuses the UI passes to updateDebtStatus (enum DebtStatus)
UiStatuses == {"resolved"}

DebtId(f) == IF f = "a" THEN "dA" ELSE "dB"
FileOfDebtId(id) == IF id \in {"dA", "dA2"} THEN "a" ELSE "B"

\* The values of a record of the response that name a line (line,
\* metadata.line, metadata.location.line) are written as their JSON text:
\* "10" is the number 10, "abc" a string that is no number, "" the empty
\* string and Null a missing field.

\* the metadata of a response record: whether it is an object, whether it
\* has a location object, and the lines these carry.  NoMetadata: the
\* record has no metadata
NoMetadata == [object |-> FALSE, location |-> FALSE, locationLine |-> Null, line |-> Null]

\* the backend's answer to GET /debts/project/{id}?file_path=...: the
\* records of the file the request path names (its last segment)
WireDebts(bd, request) ==
    LET f == request[Len(request)]
    IN IF f \in Files
       THEN <<[id |-> DebtId(f), file_path |-> <<f>>, line |-> "10",
               severity |-> "HIGH", status |-> bd[f], metadata |-> NoMetadata]>>
       ELSE <<>>

\* toLowerCase on the words that occur as severity and status
StrLower(w) ==
    CASE w = "HIGH" -> "high"
      [] w = "OPEN" -> "open"
      [] w = "IGNORED" -> "ignored"
      [] w \in {"LOW", "Low"} -> "low"
      [] w \in {"MEDIUM", "Medium"} -> "medium"
      [] w \in {"CRITICAL", "Critical"} -> "critical"
      [] w = "BLOCKER" -> "blocker"
      [] OTHER -> w

\* the severity values a backend record can carry: the four severities in
\* lower, upper and mixed case, the empty string, none at all (Null) and
\* words that are no severity
SeverityInputs ==
    {"low", "LOW", "Low", "medium", "MEDIUM", "Medium", "high", "HIGH",
     "critical", "CRITICAL", "Critical", "", Null, "blocker", "BLOCKER"}

\* the answers of the backend to the debt request of file f, beyond those of
\* WireDebts: one record with any severity, two records in either order of
\* their lines or on the same line, a record without a line, no record
WireAnswers(f) ==
    LET rec(id, line, sev) == [id |-> id, file_path |-> <<f>>, line |-> line,
                               severity |-> sev, status |-> "open",
                               metadata |-> NoMetadata]
    IN IF f = "a"
       THEN {<<rec("dA", "10", sev)>> : sev \in SeverityInputs}
            \cup {<<rec("dA", "10", "HIGH"), rec("dA2", "3", "low")>>,
                  <<rec("dA", "3", "HIGH"), rec("dA2", "10", "low")>>,
                  <<rec("dA", "3", "HIGH"), rec("dA2", "3", "low")>>,
                  <<>>}
       ELSE {<<rec("dB", "0", "medium")>>, <<rec("dB", "10", "medium")>>}

(* --------------------------- Map operations ---------------------------- *)
\* a JavaScript Map is the sequence of its entries in insertion order
MapKeys(m) == {m[i].key : i \in 1..Len(m)}
MapHas(m, k) == k \in MapKeys(m)
MapGet(m, k) == m[CHOOSE i \in 1..Len(m) : m[i].key = k]
MapDelete(m, k) == SelectSeq(m, LAMBDA e : e.key # k)
MapSet(m, k, e) ==
    IF MapHas(m, k)
    THEN [i \in 1..Len(m) |-> IF m[i].key = k THEN e ELSE m[i]]
    ELSE Append(m, e)
KeyOrder(m) == [i \in 1..Len(m) |-> m[i].key]

(* ------------------------- ApiClient, DebtService ---------------------- *)
\* the value that is not a number, as Number() gives it for a value it
\* cannot read; it lies outside the lines of the model
NaN == -999

\* Number(v) of a JSON value
Number(v) ==
    CASE v = "1" -> 1
      [] v = "3" -> 3
      [] v = "10" -> 10
      [] v = "20" -> 20
      [] v = "5" -> 5
      [] v = "6" -> 6
      [] v = "21" -> 21
      [] v = "0" -> 0
      [] v = "-5" -> -5
      [] v = "" -> 0
      [] OTHER -> NaN

\* the JSON text of a number the code has computed
JsonOf(n) ==
    CASE n = 1 -> "1"
      [] n = 3 -> "3"
      [] n = 10 -> "10"
      [] n = 20 -> "20"
      [] n = 5 -> "5"
      [] n = 6 -> "6"
      [] n = 21 -> "21"

\* a value that `||` and `!` treat as true: not missing, not 0, not ""
TruthyValue(v) == v \notin {Null, "", "0"}

\* the line ApiClient.getFileDebts puts into metadata.location
locationOf(lineValue) ==
    JsonOf(IF lineValue # NaN /\ lineValue > 0 THEN lineValue ELSE 1)

\* ApiClient.getFileDebts: the metadata of the DebtItem (lines 366-380)
apiMetadata(d) ==
    LET metadata == d.metadata
    IN IF metadata.object
       THEN IF ~metadata.location /\ (TruthyValue(d.line) \/ TruthyValue(metadata.line))
            THEN [metadata EXCEPT
                     !.location = TRUE,
                     !.locationLine = locationOf(Number(IF metadata.line # Null
                                                        THEN metadata.line ELSE d.line))]
            ELSE metadata
       ELSE IF Number(d.line) # NaN /\ Number(d.line) > 0
            THEN [NoMetadata EXCEPT !.object = TRUE, !.location = TRUE,
                                    !.locationLine = JsonOf(Number(d.line))]
            ELSE NoMetadata

\* ApiClient.getFileDebts: one record of the response as a DebtItem
apiMapFileDebt(d, projectId) ==
    [id |-> d.id,
     projectId |-> projectId,
     filePath |-> d.file_path,
     severity |-> StrLower(IF d.severity \in {Null, ""} THEN "low" ELSE d.severity),
     status |-> IF StrLower(d.status) = "ignored" THEN "wont_fix" ELSE d.status,
     metadata |-> apiMetadata(d)]

\* the statuses of the user interface (DebtStatus)
DebtStatuses == {"open", "in_progress", "resolved", "wont_fix"}

\* ApiClient.updateDebtStatus and getProjectDebts: mapStatusFromServer
mapStatusFromServer(s) ==
    IF ~Truthy(s)
    THEN "open"
    ELSE LET v == StrLower(s)
         IN IF v = "ignored" THEN "wont_fix"
            ELSE IF v = "in_progress" THEN "in_progress"
            ELSE IF v = "resolved" THEN "resolved"
            ELSE "open"

\* faulty variant of toServerStatus: the status is sent as the interface names it
toServerStatusAsGiven(st) == st

\* ApiClient.updateDebtStatus: toServerStatus
toServerStatus(st) == IF st = "wont_fix" THEN "ignored" ELSE st

\* DebtService.findContainingWorkspace: <<folder>> or <<>>
findContainingWorkspace(folders, absolutePath) ==
    LET na == ToLowerCase(BackToSlash(absolutePath))
        hits == SelectSeq(folders, LAMBDA fo : StartsWith(na, ToLowerCase(BackToSlash(fo))))
    IN IF Len(hits) > 0 THEN <<hits[1]>> ELSE <<>>

\* DebtService.buildRequestPath
buildRequestPath(absolutePath, base) ==
    LET na == BackToSlash(absolutePath)
    IN IF Len(base) > 0
       THEN LET bp == BackToSlash(base[1])
            IN IF StartsWith(ToLowerCase(na), ToLowerCase(bp))
               THEN LET relative == StripLeading(SubSeq(na, Len(bp) + 1, Len(na)), "/")
                    IN IF Len(relative) > 0 THEN relative ELSE na
               ELSE na
       ELSE na

\* DebtService.resolvePathForRequest for an absolute filePath whose first
\* candidate exists on disk: {absolute, request}
resolvePathForRequest(plat, folders, filePath) ==
    LET absolute == pathNormalize(plat, BackToSlash(filePath))
    IN [absolute |-> absolute,
        request |-> buildRequestPath(absolute, findContainingWorkspace(folders, absolute))]

\* DebtService.resolveDebtFilePath
resolveDebtFilePath(plat, folders, rawPath, fallbackAbsolute) ==
    IF Len(rawPath) > 0
    THEN LET normalized == BackToSlash(rawPath)
             base == findContainingWorkspace(folders, fallbackAbsolute)
         IN IF pathIsAbsolute(plat, normalized) THEN pathNormalize(plat, normalized)
            ELSE IF Len(base) > 0 THEN pathJoin(plat, base[1], normalized)
            ELSE pathNormalize(plat, fallbackAbsolute)
    ELSE pathNormalize(plat, fallbackAbsolute)

\* DebtService.getFileDebts, the mapping applied to the ApiClient's result
svcNormalize(plat, folders, items, absolute) ==
    [i \in 1..Len(items) |->
        [items[i] EXCEPT !.filePath = resolveDebtFilePath(plat, folders, items[i].filePath, absolute)]]

\* DebtService cache key `fileDebts:${projectId}:${lookup.request}`
SvcKey(projectId, request) == <<projectId, request>>
SvcHas(sc, k) == \E e \in sc : e.key = k
SvcGet(sc, k) == CHOOSE e \in sc : e.key = k

\* DebtService.getCachedData: <<data>> on a hit, <<>> otherwise
getCachedData(sc, k, t) ==
    IF SvcHas(sc, k) /\ t - SvcGet(sc, k).timestamp < cacheTimeout
    THEN <<SvcGet(sc, k).data>>
    ELSE <<>>

\* DebtService.getCachedData: an expired entry is deleted by the lookup
svcAfterGet(sc, k, t) ==
    IF SvcHas(sc, k) /\ ~(t - SvcGet(sc, k).timestamp < cacheTimeout)
    THEN {e \in sc : e.key # k}
    ELSE sc

\* DebtService.setCachedData
setCachedData(sc, k, data, t) ==
    {e \in sc : e.key # k} \cup {[key |-> k, data |-> data, timestamp |-> t]}

(* ----------------------------- FileDebtIndex --------------------------- *)
\* faulty variant of isVirtualDocument: no document counts as virtual
isVirtualDocumentNever(doc) == FALSE

\* FileDebtIndex.isVirtualDocument: the uri in lower case contains
\* "extension-output-", or begins with "vscode-remote://" or
\* "vscode-userdata://" (a uri begins with its scheme)
isVirtualDocument(doc) ==
    doc.outputMarker \/ doc.scheme \in {"vscode-remote", "vscode-userdata"}

\* FileDebtIndex.resolveAbsolutePath
resolveAbsolutePath(plat, folders, preferred, fallback) ==
    LET pick == IF Len(preferred) > 0 THEN preferred ELSE fallback
        containing == SelectSeq(folders, LAMBDA fo : StartsWith(fallback, fo))
    IN IF pathIsAbsolute(plat, pick) THEN pathNormalize(plat, pick)
       ELSE IF Len(containing) > 0 THEN pathJoin(plat, containing[1], pick)
       ELSE IF Len(folders) > 0 THEN pathJoin(plat, folders[1], pick)
       ELSE pathNormalize(plat, fallback)

\* FileDebtIndex.mapSeverity
\* faulty variant of mapSeverity: the severity is stored as it was received
mapSeverityAsGiven(raw) == raw

\* FileDebtIndex.mapSeverity
mapSeverity(raw) ==
    IF raw \in {"low", "medium", "high", "critical"} THEN raw
    ELSE LET value == StrLower(raw)
         IN CASE value = "critical" -> "critical"
              [] value = "high" -> "high"
              [] value = "medium" -> "medium"
              [] OTHER -> "low"

\* Math.max: not a number as soon as one of the two is not
Max(a, b) == IF a = NaN \/ b = NaN THEN NaN ELSE IF a >= b THEN a ELSE b

\* fetchAndCacheFile: the line of the FileDebt (line 186),
\* debt.metadata?.location?.line ?? debt.metadata?.line ?? debt.line ?? 1;
\* a DebtItem has no field `line`
lineOf(metadata) ==
    Max(1, IF metadata.object /\ metadata.location /\ metadata.locationLine # Null
           THEN Number(metadata.locationLine)
           ELSE IF metadata.object /\ metadata.line # Null
           THEN Number(metadata.line)
           ELSE 1)

\* fetchAndCacheFile: the FileDebt built from one DebtItem
mapFileDebt(plat, folders, debt, filePath) ==
    [id |-> debt.id,
     filePath |-> resolveAbsolutePath(plat, folders, debt.filePath, filePath),
     line |-> lineOf(debt.metadata),
     severity |-> mapSeverity(debt.severity),
     status |-> LET value == IF Truthy(debt.status) THEN StrLower(debt.status) ELSE ""
                IN IF value = "" THEN "open" ELSE value]

mapFileDebts(plat, folders, debts, filePath) ==
    [i \in 1..Len(debts) |-> mapFileDebt(plat, folders, debts[i], filePath)]

\* faulty variant of servesFromCache: the age of the entry is not looked at
servesFromCacheForever(m, k, forceRefresh, t) ==
    MapHas(m, k) /\ ~forceRefresh

\* faulty variant of servesFromCache: forceRefresh is not looked at
servesFromCacheDespiteForce(m, k, forceRefresh, t) ==
    MapHas(m, k) /\ t - MapGet(m, k).fetchedAt < ttlMs

\* scanFile: the condition under which the cached list is returned
servesFromCache(m, k, forceRefresh, t) ==
    MapHas(m, k) /\ ~forceRefresh /\ t - MapGet(m, k).fetchedAt < ttlMs

\* faulty variant of refreshWants: every entry is fetched again
refreshWantsAlways(entry, forceRescan, t) == TRUE

\* refreshAllCached: the condition under which an entry is fetched again
refreshWants(entry, forceRescan, t) ==
    forceRescan \/ t - entry.fetchedAt >= ttlMs

\* faulty variant of cachedDebts: an entry past its TTL is treated as a miss
cachedDebtsWhileFresh(m, k) ==
    IF MapHas(m, k) /\ now - MapGet(m, k).fetchedAt < ttlMs THEN MapGet(m, k).debts ELSE <<>>

\* getCachedFileDebts / getCachedDebtsByPath
cachedDebts(m, k) == IF MapHas(m, k) THEN MapGet(m, k).debts ELSE <<>>

\* faulty variant of ensureProjectPath: a resolution in flight is not joined
ensureProjectPathWithoutJoin(projectId, ensuring, folders) ==
    IF projectId \notin {Null, ""} THEN "memo"
    ELSE IF ensuring = "settled_null" THEN "settled"
    ELSE IF Len(folders) = 0 THEN "nofolder"
    ELSE "start"

\* faulty variant of ensureProjectPath: the workspace folder is looked at
\* before the memoized id
ensureProjectPathFolderFirst(projectId, ensuring, folders) ==
    IF Len(folders) = 0 THEN "nofolder"
    ELSE IF projectId \notin {Null, ""} THEN "memo"
    ELSE IF ensuring = "pending" THEN "join"
    ELSE IF ensuring = "settled_null" THEN "settled"
    ELSE "start"

\* faulty variant of ensureProjectPath: the memoized id is not looked at
ensureProjectPathWithoutMemo(projectId, ensuring, folders) ==
    IF ensuring = "pending" THEN "join"
    ELSE IF ensuring = "settled_null" THEN "settled"
    ELSE IF Len(folders) = 0 THEN "nofolder"
    ELSE "start"

\* ensureProject: which way a call takes
\*   "memo"     the memoized id is returned
\*   "join"     the pending promise of the resolution in flight is returned
\*   "settled"  ensuringProject holds a promise already settled with null
\*   "nofolder" a resolution starts and ends at once: no workspace folder
\*   "start"    a resolution starts with the lookup by path
ensureProjectPath(projectId, ensuring, folders) ==
    IF Truthy(projectId) THEN "memo"
    ELSE IF ensuring = "pending" THEN "join"
    ELSE IF ensuring = "settled_null" THEN "settled"
    ELSE IF Len(folders) = 0 THEN "nofolder"
    ELSE "start"


(* -------------------------------- state -------------------------------- *)
NoCall ==
    [op |-> "idle", pc |-> "idle", filePath |-> <<>>, key |-> <<>>, pid |-> Null,
     force |-> FALSE, pending |-> <<>>, lookup |-> <<>>, resp |-> <<>>,
     debt |-> <<>>, status |-> ""]

\* what a step returns: the method that returns and its value (pid of
\* ensureProject, list of scanFile and the reads, ok of updateDebtStatus)
NoRet == [op |-> "none", pid |-> Null, list |-> <<>>, ok |-> FALSE]

IdleResolver == [pc |-> "idle", localPath |-> <<>>]
NoEpoch == [lookups |-> 0, creates |-> 0]

\* no mark-status command has been run
NoCommand == [pc |-> "idle", debt |-> <<>>, ok |-> FALSE, scanned |-> Null]

\* TechnicalDebtProvider: private viewMode: ViewMode = ViewMode.FILE
initialViewMode == "FILE"

\* no getChildren call is under way and none has returned: pc is where the
\* call waits ("ensure", "scan", "ready": its continuation is about to run,
\* "projectDebts"), pid the project id it has got, returned the number of
\* calls that have ended, threw whether the last one rejected, children the
\* items the last one returned
\* no editor shows a decoration
NoDecorations == [f \in Files |-> <<>>]

NoTree == [pc |-> "idle", pid |-> Null, returned |-> 0, threw |-> FALSE, children |-> <<>>]

\* the views after activate(): the tree in its initial mode, the decorator
\* enabled, nothing pending
(* --------------------------- scheduleAutoRefresh ----------------------- *)
\* no interval timer has been created yet and refreshTimerHandle is undefined
\*   handle   refreshTimerHandle: <<>> (undefined) or <<id>>
\*   active   the interval timers created by setInterval and not cleared,
\*            each with its id and its period in milliseconds
\*   created  how many timers setInterval has created
NoTimer == [handle |-> <<>>, active |-> {}, created |-> 0]

\* analysis.refreshInterval is written in tenths of a second, so that a
\* setting such as 0.5 can be told from 0: Math.floor(raw) in seconds
floorSeconds(raw) == raw \div 10

\* faulty variant of clearTimer: the existing timer is left running
clearTimerNot(t) == [t EXCEPT !.handle = <<>>]

\* clearInterval(refreshTimerHandle); refreshTimerHandle = undefined
clearTimer(t) ==
    IF Len(t.handle) > 0
    THEN [t EXCEPT !.active = {x \in @ : x.id # t.handle[1]}, !.handle = <<>>]
    ELSE t

\* the period of the timer, in milliseconds
intervalMsOf(intervalSeconds) == Max(10, intervalSeconds) * 1000

\* scheduleAutoRefresh with analysis.refreshInterval = raw
scheduleAutoRefresh(t, raw) ==
    LET intervalSeconds == Max(0, floorSeconds(raw))
        cleared == clearTimer(t)
    IN IF intervalSeconds = 0 THEN cleared
       ELSE [handle |-> <<cleared.created + 1>>,
             active |-> cleared.active
                           \cup {[id |-> cleared.created + 1,
                                   ms |-> intervalMsOf(intervalSeconds)]},
             created |-> cleared.created + 1]

\* the timer after activation with a refresh interval of 30 seconds
ActivatedTimer == scheduleAutoRefresh(NoTimer, 300)

ViewsAtRest ==
    /\ viewMode = initialViewMode
    /\ enabled = TRUE
    /\ notified = {}
    /\ cont = [s \in Slots |-> "none"]
    /\ command = NoCommand
    /\ lenses = <<>>
    /\ requested = [f \in Files |-> -1]
    /\ autoRefreshRunning = FALSE
    /\ timerReady = FALSE
    /\ refreshTimer = ActivatedTimer
    /\ tree = NoTree
    /\ decorations = NoDecorations

Init ==
    /\ now = 0
    /\ workspaceFolders \in {<<>>, <<FolderPath(platform)>>}
    /\ workspaceProjectId = Null
    /\ ensuringProject = "none"
    /\ resolver = IdleResolver
    /\ cache = <<>>
    /\ svcCache = {}
    /\ backendProjects \in {{}, {"p1"}}
    /\ backendDebts = [f \in Files |-> "open"]
    /\ calls = [s \in Slots |-> NoCall]
    /\ io = {}
    /\ fired = 0
    /\ ret = NoRet
    /\ epoch = NoEpoch
    /\ started = 0
    /\ activeEditor = Null
    /\ stale = {}
    /\ ViewsAtRest

\* a new call takes the first free place among the suspended calls
FreeSlot(s) ==
    /\ started < MaxEvents
    /\ calls[s].op = "idle"
    /\ \A t \in Slots : t < s => calls[t].op # "idle"

\* no continuation of a settled promise is waiting: the event loop takes the
\* next event only after the microtasks have run
Quiet == \A s \in Slots : calls[s].pc # "resume"

\* the live iterators of refreshAllCached calls follow the Map: a deleted key
\* is no longer visited, a key inserted anew is visited last
FollowMap(cs, old, new) ==
    [s \in Slots |->
        IF cs[s].op = "refresh"
        THEN [cs[s] EXCEPT !.pending =
                 SelectSeq(@, LAMBDA k : MapHas(new, k))
                 \o SelectSeq(KeyOrder(new), LAMBDA k : ~MapHas(old, k))]
        ELSE cs[s]]

(* ---------------------------- ensureProject ---------------------------- *)
\* the part of ensureProject that runs at the call.  With no workspace
\* folder the async body returns null and its finally block clears
\* ensuringProject before the assignment of line 61 stores the promise of
\* that body, which is settled with null.
EnsureEnter(kind) ==
    /\ ensuringProject' =
          CASE kind = "start" -> "pending"
            [] kind = "nofolder" -> "settled_null"
            [] OTHER -> ensuringProject
    /\ resolver' =
          IF kind = "start"
          THEN [pc |-> "lookup", localPath |-> workspaceFolders[1]]
          ELSE resolver
    /\ epoch' =
          IF kind = "start"
          THEN IF resolver.pc = "idle"
               THEN [lookups |-> 1, creates |-> 0]
               ELSE [epoch EXCEPT !.lookups = @ + 1]
          ELSE epoch

\* the value an ensureProject call has at once, when it does not wait
EnsureNow(kind) == IF kind = "memo" THEN workspaceProjectId ELSE Null

EnsureWaits(kind) == kind \in {"start", "join"}
EnsureIo(kind) == IF kind = "start" THEN {"getProjectByPath"} ELSE {}

EnsureRet(value) == [NoRet EXCEPT !.op = "ensureProject", !.pid = value]

\* ensureProject() called by a consumer (tree view, workspace mode)
EnsureProjectCall(s) ==
    LET kind == ensureProjectPath(workspaceProjectId, ensuringProject, workspaceFolders)
    IN /\ Quiet
       /\ FreeSlot(s)
       /\ started' = started + 1
       /\ EnsureEnter(kind)
       /\ io' = EnsureIo(kind)
       /\ fired' = 0
       /\ IF EnsureWaits(kind)
          THEN /\ calls' = [calls EXCEPT ![s] = [NoCall EXCEPT !.op = "ensure", !.pc = "ensure"]]
               /\ ret' = NoRet
          ELSE /\ calls' = calls
               /\ ret' = EnsureRet(EnsureNow(kind))
       /\ UNCHANGED <<now, workspaceFolders, workspaceProjectId, cache,
                      svcCache, backendProjects, backendDebts>>

\* the promise of the resolution settles: every waiting call gets the value
Settle(cs, value) ==
    [s \in Slots |->
        IF cs[s].pc = "ensure" THEN [cs[s] EXCEPT !.pc = "resume", !.pid = value]
        ELSE cs[s]]

\* getProjectByPath answers: a project of the backend, or null (no project,
\* or the lookup failed: DebtService.getProjectByPath catches and returns
\* null).  On null the body goes on to detectProjectLanguage and then calls
\* createProject; the probes of detectProjectLanguage are part of this step.
ResolverLookupDone ==
    /\ Quiet
    /\ resolver.pc = "lookup"
    /\ \E existing \in backendProjects \cup {Null} :
          IF existing # Null
          THEN /\ workspaceProjectId' = existing
               /\ ensuringProject' = "none"
               /\ resolver' = IdleResolver
               /\ calls' = Settle(calls, existing)
               /\ epoch' = epoch
               /\ io' = {}
          ELSE /\ resolver' = [resolver EXCEPT !.pc = "create"]
               /\ epoch' = [epoch EXCEPT !.creates = @ + 1]
               /\ io' = {"createProject"}
               /\ UNCHANGED <<workspaceProjectId, ensuringProject, calls>>
    /\ fired' = 0
    /\ ret' = NoRet
    /\ UNCHANGED <<now, workspaceFolders, cache, svcCache,
                   backendProjects, backendDebts, started>>

\* the id the backend gives to the project it creates
FreshProjectId(bp) == IF "p1" \notin bp THEN "p1" ELSE "p2"

\* createProject answers: the backend has made a new project, or it failed
ResolverCreateDone ==
    /\ Quiet
    /\ resolver.pc = "create"
    /\ \E ok \in BOOLEAN :
          IF ok
          THEN /\ backendProjects' = backendProjects \cup {FreshProjectId(backendProjects)}
               /\ workspaceProjectId' = FreshProjectId(backendProjects)
               /\ calls' = Settle(calls, FreshProjectId(backendProjects))
          ELSE /\ calls' = Settle(calls, Null)
               /\ UNCHANGED <<backendProjects, workspaceProjectId>>
    /\ epoch' = epoch
    /\ ensuringProject' = "none"
    /\ resolver' = IdleResolver
    /\ io' = {}
    /\ fired' = 0
    /\ ret' = NoRet
    /\ UNCHANGED <<now, workspaceFolders, cache, svcCache, backendDebts, started>>

(* --------------------------- fetchAndCacheFile ------------------------- *)
\* how a gateway call ended, as it is recorded in io
Answer(call, ok) ==
    IF call = "getFileDebts"
    THEN IF ok THEN "getFileDebts:ok" ELSE "getFileDebts:error"
    ELSE IF ok THEN "updateDebtStatus:ok" ELSE "updateDebtStatus:error"

\* faulty variant of fetchedCache: a failed fetch leaves the old entry
fetchedCacheKeepingOld(m, key, filePath, ok, items, t) ==
    IF ok
    THEN MapSet(m, key, [key |-> key,
                         debts |-> mapFileDebts(platform, workspaceFolders, items, filePath),
                         fetchedAt |-> t, filePath |-> filePath])
    ELSE m

\* faulty variant of fetchedCache: the entry is stamped with the start of the
\* session instead of the time of the fetch
fetchedCacheUnstamped(m, key, filePath, ok, items, t) ==
    IF ok
    THEN MapSet(m, key, [key |-> key,
                         debts |-> mapFileDebts(platform, workspaceFolders, items, filePath),
                         fetchedAt |-> 0, filePath |-> filePath])
    ELSE MapDelete(m, key)

\* faulty variant of fetchedCache: an entry that is there is not overwritten
fetchedCacheOnce(m, key, filePath, ok, items, t) ==
    IF ok
    THEN IF MapHas(m, key) THEN m
         ELSE MapSet(m, key, [key |-> key,
                              debts |-> mapFileDebts(platform, workspaceFolders, items, filePath),
                              fetchedAt |-> t, filePath |-> filePath])
    ELSE MapDelete(m, key)

\* fetchAndCacheFile after getFileDebts has answered (lines 182-208): the
\* Map after the try branch (ok, with the DebtItems) or the catch branch
fetchedCache(m, key, filePath, ok, items, t) ==
    IF ok
    THEN MapSet(m, key, [key |-> key,
                         debts |-> mapFileDebts(platform, workspaceFolders, items, filePath),
                         fetchedAt |-> t, filePath |-> filePath])
    ELSE MapDelete(m, key)

\* faulty variant of fetchedList: the catch branch is missing, the list is
\* built from whatever the gateway call left
fetchedListUncaught(ok, items, filePath) ==
    mapFileDebts(platform, workspaceFolders, items, filePath)

\* fetchAndCacheFile: what it returns
fetchedList(ok, items, filePath) ==
    IF ok THEN mapFileDebts(platform, workspaceFolders, items, filePath) ELSE <<>>

\* DebtService.getFileDebts up to the HTTP request (lines 193-207), for a
\* file that is on disk: <<"items", list>> when the response cache answers,
\* <<"http", lookup>> when the request is sent.  The disk probe of
\* resolvePathForRequest is part of the step that calls getFileDebts.
svcGetFileDebts(sc, projectId, filePath, t) ==
    LET lookup == resolvePathForRequest(platform, workspaceFolders, filePath)
        hit == getCachedData(sc, SvcKey(projectId, lookup.request), t)
    IN IF Len(hit) > 0 THEN <<"items", hit[1]>> ELSE <<"http", lookup>>

\* DebtService.cache after that part of getFileDebts
svcAfterCall(sc, projectId, filePath, t) ==
    svcAfterGet(sc, SvcKey(projectId,
                    resolvePathForRequest(platform, workspaceFolders, filePath).request), t)

ScanRet(list) == [NoRet EXCEPT !.op = "scanFile", !.list = list]

RefreshRet == [NoRet EXCEPT !.op = "refreshAllCached"]

RECURSIVE NextWanted(_, _, _, _)
\* refreshAllCached: the loop skips the entries that are neither forced nor expired
NextWanted(pending, m, forceRescan, t) ==
    IF Len(pending) = 0 THEN pending
    ELSE IF refreshWants(MapGet(m, Head(pending)), forceRescan, t) THEN pending
    ELSE NextWanted(Tail(pending), m, forceRescan, t)

\* the record of a call that waits for the answer to its HTTP request; the
\* backend reads its records when the request is sent
Waiting(op, filePath, key, projectId, force, pending, lookup) ==
    [NoCall EXCEPT !.op = op, !.pc = "http", !.filePath = filePath, !.key = key,
                   !.pid = projectId, !.force = force, !.pending = pending,
                   !.lookup = <<lookup>>,
                   !.resp = WireDebts(backendDebts, lookup.request)]

RECURSIVE RefreshRun(_, _, _, _, _, _, _)
\* refreshAllCached: the loop of lines 169-175 from the entry `pending` starts
\* with, run until a fetch has to wait for the backend or the loop ends.
\* Gives the Map, the DebtService cache, the suspended call (NoCall at the
\* end), the number of change events fired and the gateway calls made.
RefreshRun(m, sc, pending, forceRescan, projectId, n, cs) ==
    LET rest == NextWanted(pending, m, forceRescan, now)
    IN IF Len(rest) = 0
       THEN [cache |-> m, svc |-> sc, call |-> NoCall, fired |-> n, io |-> cs]
       ELSE LET key == Head(rest)
                filePath == MapGet(m, key).filePath
                ans == svcGetFileDebts(sc, projectId, filePath, now)
                sc2 == svcAfterCall(sc, projectId, filePath, now)
            IN IF ans[1] = "http"
               THEN [cache |-> m, svc |-> sc2,
                     call |-> Waiting("refresh", filePath, key, projectId, forceRescan,
                                      Tail(rest), ans[2]),
                     fired |-> n, io |-> cs \cup {"getFileDebts", "http.getFileDebts"}]
               ELSE RefreshRun(fetchedCache(m, key, filePath, TRUE, ans[2], now), sc2,
                               Tail(rest), forceRescan, projectId, n + 1,
                               cs \cup {"getFileDebts"})

\* refreshAllCached continues (or begins) its loop
RefreshLoop(cs, s, m, sc, pending, forceRescan, projectId, n, answers) ==
    LET r == RefreshRun(m, sc, pending, forceRescan, projectId, n, answers)
    IN /\ cache' = r.cache
       /\ svcCache' = r.svc
       /\ calls' = [FollowMap(cs, m, r.cache) EXCEPT ![s] = r.call]
       /\ fired' = r.fired
       /\ io' = r.io
       /\ ret' = IF r.call = NoCall THEN RefreshRet ELSE NoRet

\* refreshAllCached from the point where the project id is known (lines 165-175)
RefreshBody(s, forceRescan, projectId) ==
    IF ~Truthy(projectId)
    THEN /\ calls' = [calls EXCEPT ![s] = NoCall]
         /\ ret' = RefreshRet
         /\ io' = {}
         /\ fired' = 0
         /\ UNCHANGED <<cache, svcCache>>
    ELSE RefreshLoop(calls, s, cache, svcCache, KeyOrder(cache), forceRescan, projectId, 0, {})

\* scanFile from the point where the project id is known (lines 107-119)
ScanBody(s, filePath, forceRefresh, projectId) ==
    LET cacheKey == normalizePath(filePath)
    IN IF ~Truthy(projectId)
       THEN /\ calls' = [calls EXCEPT ![s] = NoCall]
            /\ ret' = ScanRet(<<>>)
            /\ io' = {}
            /\ fired' = 0
            /\ UNCHANGED <<cache, svcCache>>
       ELSE IF servesFromCache(cache, cacheKey, forceRefresh, now)
       THEN /\ calls' = [calls EXCEPT ![s] = NoCall]
            /\ ret' = ScanRet(MapGet(cache, cacheKey).debts)
            /\ io' = {}
            /\ fired' = 0
            /\ UNCHANGED <<cache, svcCache>>
       ELSE LET ans == svcGetFileDebts(svcCache, projectId, filePath, now)
                newCache == fetchedCache(cache, cacheKey, filePath, TRUE, ans[2], now)
            IN /\ svcCache' = svcAfterCall(svcCache, projectId, filePath, now)
               /\ IF ans[1] = "http"
                  THEN /\ calls' = [calls EXCEPT ![s] =
                                       Waiting("scan", filePath, cacheKey, projectId,
                                               forceRefresh, <<>>, ans[2])]
                       /\ ret' = NoRet
                       /\ io' = {"getFileDebts", "http.getFileDebts"}
                       /\ fired' = 0
                       /\ cache' = cache
                  ELSE /\ cache' = newCache
                       /\ calls' = [FollowMap(calls, cache, newCache) EXCEPT ![s] = NoCall]
                       /\ ret' = ScanRet(fetchedList(TRUE, ans[2], filePath))
                       /\ io' = {"getFileDebts"}
                       /\ fired' = 1

(* ------------------------- scanFile, refreshAllCached ------------------ *)
\* scanFile(document, forceRefresh) is called
ScanFileCall(s, doc, forceRefresh) ==
    LET kind == ensureProjectPath(workspaceProjectId, ensuringProject, workspaceFolders)
    IN /\ Quiet
       /\ FreeSlot(s)
       /\ started' = started + 1
       /\ IF doc.scheme # "file" \/ isVirtualDocument(doc)
          THEN /\ ret' = ScanRet(<<>>)
               /\ io' = {}
               /\ fired' = 0
               /\ UNCHANGED <<ensuringProject, resolver, epoch, calls, cache, svcCache>>
          ELSE /\ EnsureEnter(kind)
               /\ IF EnsureWaits(kind)
                  THEN /\ calls' = [calls EXCEPT ![s] =
                                       [NoCall EXCEPT !.op = "scan", !.pc = "ensure",
                                                      !.filePath = doc.fsPath,
                                                      !.force = forceRefresh]]
                       /\ ret' = NoRet
                       /\ io' = EnsureIo(kind)
                       /\ fired' = 0
                       /\ UNCHANGED <<cache, svcCache>>
                  ELSE ScanBody(s, doc.fsPath, forceRefresh, EnsureNow(kind))
       /\ UNCHANGED <<now, workspaceFolders, workspaceProjectId,
                      backendProjects, backendDebts>>

\* refreshAllCached(forceRescan) is called
RefreshAllCachedCall(s, forceRescan) ==
    LET kind == ensureProjectPath(workspaceProjectId, ensuringProject, workspaceFolders)
    IN /\ Quiet
       /\ FreeSlot(s)
       /\ started' = started + 1
       /\ EnsureEnter(kind)
       /\ IF EnsureWaits(kind)
          THEN /\ calls' = [calls EXCEPT ![s] =
                               [NoCall EXCEPT !.op = "refresh", !.pc = "ensure",
                                              !.force = forceRescan]]
               /\ ret' = NoRet
               /\ io' = EnsureIo(kind)
               /\ fired' = 0
               /\ UNCHANGED <<cache, svcCache>>
          ELSE RefreshBody(s, forceRescan, EnsureNow(kind))
       /\ UNCHANGED <<now, workspaceFolders, workspaceProjectId,
                      backendProjects, backendDebts>>

\* a call that awaited the project resolution continues with its value
Resume(s) ==
    /\ calls[s].pc = "resume"
    /\ CASE calls[s].op = "ensure" ->
              /\ calls' = [calls EXCEPT ![s] = NoCall]
              /\ ret' = EnsureRet(calls[s].pid)
              /\ io' = {}
              /\ fired' = 0
              /\ UNCHANGED <<cache, svcCache>>
         [] calls[s].op = "scan" ->
              ScanBody(s, calls[s].filePath, calls[s].force, calls[s].pid)
         [] calls[s].op = "refresh" ->
              RefreshBody(s, calls[s].force, calls[s].pid)
    /\ epoch' = IF \E t \in Slots : t # s /\ calls[t].pc = "resume" THEN epoch ELSE NoEpoch
    /\ UNCHANGED <<now, workspaceFolders, workspaceProjectId,
                   ensuringProject, resolver, backendProjects, backendDebts, started>>

\* the HTTP request of getFileDebts ends, with the response or with an error:
\* DebtService stores the response, fetchAndCacheFile writes or drops the
\* entry and fires the change event; scanFile returns, refreshAllCached goes
\* on with its loop
FetchRespond(s) ==
    LET c == calls[s]
        items == svcNormalize(platform, workspaceFolders,
                              [i \in 1..Len(c.resp) |-> apiMapFileDebt(c.resp[i], c.pid)],
                              c.lookup[1].absolute)
    IN /\ Quiet
       /\ c.pc = "http"
       /\ \E ok \in BOOLEAN :
             LET newCache == fetchedCache(cache, c.key, c.filePath, ok, items, now)
                 newSvc == IF ok
                           THEN setCachedData(svcCache, SvcKey(c.pid, c.lookup[1].request),
                                              items, now)
                           ELSE svcCache
                 cs == FollowMap(calls, cache, newCache)
             IN IF c.op = "scan"
                THEN /\ cache' = newCache
                     /\ svcCache' = newSvc
                     /\ calls' = [cs EXCEPT ![s] = NoCall]
                     /\ ret' = ScanRet(fetchedList(ok, items, c.filePath))
                     /\ io' = {Answer("getFileDebts", ok)}
                     /\ fired' = 1
                ELSE RefreshLoop(cs, s, newCache, newSvc, cs[s].pending, c.force, c.pid, 1,
                                 {Answer("getFileDebts", ok)})
       /\ UNCHANGED <<now, workspaceFolders, workspaceProjectId,
                      ensuringProject, resolver, backendProjects, backendDebts, epoch,
                      started>>

(* ---------------------------- updateDebtStatus ------------------------- *)
CachedDebtSet(m) == UNION {{m[i].debts[j] : j \in 1..Len(m[i].debts)} : i \in 1..Len(m)}

\* updateDebtStatus(debt, status) is called with a debt taken from the cache
UpdateDebtStatusCall(s, debt, st) ==
    /\ Quiet
    /\ FreeSlot(s)
    /\ started' = started + 1
    /\ calls' = [calls EXCEPT ![s] =
                    [NoCall EXCEPT !.op = "update", !.pc = "put",
                                   !.debt = <<debt>>, !.status = st]]
    /\ io' = {"updateDebtStatus"}
    /\ fired' = 0
    /\ ret' = NoRet
    /\ UNCHANGED <<now, workspaceFolders, workspaceProjectId,
                   ensuringProject, resolver, cache, svcCache, backendProjects,
                   backendDebts, epoch>>

UpdateRet(ok) == [NoRet EXCEPT !.op = "updateDebtStatus", !.ok = ok]

\* faulty variant of invalidate: the key is the path as the debt carries it
invalidateRawPath(m, debt) == MapDelete(m, debt.filePath)

\* the entry updateDebtStatus deletes after the gateway has accepted the update
invalidate(m, debt) == MapDelete(m, normalizePath(debt.filePath))

\* faulty variant of updatedCache: the entry is dropped whatever the gateway says
updatedCacheEagerly(m, debt, ok) == invalidate(m, debt)

\* updateDebtStatus after the gateway has answered: the Map after the try
\* branch (ok) or the catch branch
updatedCache(m, debt, ok) == IF ok THEN invalidate(m, debt) ELSE m

\* the PUT ends: the backend has stored the status and DebtService has
\* dropped its cached responses, or the gateway has rejected the update
UpdateDebtStatusDone(s) ==
    LET c == calls[s]
        debt == c.debt[1]
        f == FileOfDebtId(debt.id)
    IN /\ Quiet
       /\ c.pc = "put"
       /\ \E ok \in BOOLEAN :
             LET newCache == updatedCache(cache, debt, ok)
             IN /\ io' = {Answer("updateDebtStatus", ok)}
                /\ cache' = newCache
                /\ calls' = [FollowMap(calls, cache, newCache) EXCEPT ![s] = NoCall]
                /\ fired' = IF ok THEN 1 ELSE 0
                /\ ret' = UpdateRet(ok)
                /\ IF ok
                   THEN /\ backendDebts' = [backendDebts EXCEPT ![f] = toServerStatus(c.status)]
                        /\ svcCache' = {}
                   ELSE UNCHANGED <<backendDebts, svcCache>>
       /\ UNCHANGED <<now, workspaceFolders, workspaceProjectId,
                      ensuringProject, resolver, backendProjects, epoch, started>>

(* ------------------------------ cache reads ---------------------------- *)
\* getCachedFileDebts(document)
GetCachedFileDebts(doc) ==
    /\ Quiet
    /\ started < MaxEvents
    /\ started' = started + 1
    /\ ret' = [NoRet EXCEPT !.op = "getCachedFileDebts",
                            !.list = cachedDebts(cache, normalizePath(doc.fsPath))]
    /\ io' = {}
    /\ fired' = 0
    /\ UNCHANGED <<now, workspaceFolders, workspaceProjectId,
                   ensuringProject, resolver, cache, svcCache, backendProjects,
                   backendDebts, calls, epoch>>

\* getCachedDebtsByPath(filePath)
GetCachedDebtsByPath(filePath) ==
    /\ Quiet
    /\ started < MaxEvents
    /\ started' = started + 1
    /\ ret' = [NoRet EXCEPT !.op = "getCachedDebtsByPath",
                            !.list = cachedDebts(cache, normalizePath(filePath))]
    /\ io' = {}
    /\ fired' = 0
    /\ UNCHANGED <<now, workspaceFolders, workspaceProjectId,
                   ensuringProject, resolver, cache, svcCache, backendProjects,
                   backendDebts, calls, epoch>>

\* String.prototype.localeCompare on the characters of the paths: letters
\* are compared without regard to case and come after the separators, "/"
\* comes before "\"
CollationRank(c) ==
    CASE c = "/" -> 1
      [] c = "\\" -> 2
      [] LowerChar(c) = "a" -> 3
      [] LowerChar(c) = "b" -> 4
      [] LowerChar(c) = "o" -> 5
      [] LowerChar(c) = "w" -> 6
      [] OTHER -> 7

RECURSIVE CompareLetters(_, _)
\* lexicographic comparison of two strings by the rank of their characters:
\* negative, zero or positive
CompareLetters(x, y) ==
    IF Len(x) = 0 \/ Len(y) = 0 THEN Len(x) - Len(y)
    ELSE IF CollationRank(Head(x)) # CollationRank(Head(y))
    THEN CollationRank(Head(x)) - CollationRank(Head(y))
    ELSE CompareLetters(Tail(x), Tail(y))

\* among strings that differ in case only, the lower-case letter comes first
CaseRank(c) == IF LowerChar(c) = c THEN 0 ELSE 1

RECURSIVE CompareCase(_, _)
\* comparison of two strings with the same letters by the case of the first
\* character in which they differ
CompareCase(x, y) ==
    IF Len(x) = 0 \/ Len(y) = 0 THEN Len(x) - Len(y)
    ELSE IF CaseRank(Head(x)) # CaseRank(Head(y))
    THEN CaseRank(Head(x)) - CaseRank(Head(y))
    ELSE CompareCase(Tail(x), Tail(y))

localeCompare(x, y) ==
    LET primary == CompareLetters(x, y)
    IN IF primary # 0 THEN primary ELSE CompareCase(x, y)

\* the comparator of aggregateWorkspaceDebts (lines 152-155)
compareDebts(left, right) ==
    LET pathCompare == localeCompare(left.filePath, right.filePath)
    IN IF pathCompare # 0 THEN pathCompare ELSE left.line - right.line

RECURSIVE InsertSorted(_, _)
\* x put into the sorted list after the elements that are not greater
InsertSorted(x, sorted) ==
    IF Len(sorted) = 0 THEN <<x>>
    ELSE IF compareDebts(Head(sorted), x) <= 0
    THEN <<Head(sorted)>> \o InsertSorted(x, Tail(sorted))
    ELSE <<x>> \o sorted

RECURSIVE SortedPrefix(_, _)
\* Array.prototype.sort (stable) with compareDebts: the first n elements sorted
SortedPrefix(all, n) ==
    IF n = 0 THEN <<>> ELSE InsertSorted(all[n], SortedPrefix(all, n - 1))

\* faulty variant of sortDebts: the list is left in the order of the Map
sortDebtsNot(all) == all

sortDebts(all) == SortedPrefix(all, Len(all))

RECURSIVE allDebts(_)
\* aggregateWorkspaceDebts, lines 148-151: the lists of the entries, one
\* after the other in the order of the Map
allDebts(m) == IF Len(m) = 0 THEN <<>> ELSE Head(m).debts \o allDebts(Tail(m))

\* aggregateWorkspaceDebts()
AggregateWorkspaceDebts ==
    /\ Quiet
    /\ started < MaxEvents
    /\ started' = started + 1
    /\ ret' = [NoRet EXCEPT !.op = "aggregateWorkspaceDebts",
                            !.list = sortDebts(allDebts(cache))]
    /\ io' = {}
    /\ fired' = 0
    /\ UNCHANGED <<now, workspaceFolders, workspaceProjectId,
                   ensuringProject, resolver, cache, svcCache, backendProjects,
                   backendDebts, calls, epoch>>

\* faulty variant of ClearAll: the Map is emptied without a change event
ClearAllSilently ==
    /\ Quiet
    /\ started < MaxEvents
    /\ started' = started + 1
    /\ cache' = <<>>
    /\ calls' = FollowMap(calls, cache, <<>>)
    /\ ret' = [NoRet EXCEPT !.op = "clearAll"]
    /\ io' = {}
    /\ fired' = 0
    /\ UNCHANGED <<now, workspaceFolders, workspaceProjectId,
                   ensuringProject, resolver, svcCache, backendProjects,
                   backendDebts, epoch>>

\* clearAll()
ClearAll ==
    /\ Quiet
    /\ started < MaxEvents
    /\ started' = started + 1
    /\ cache' = <<>>
    /\ calls' = FollowMap(calls, cache, <<>>)
    /\ ret' = [NoRet EXCEPT !.op = "clearAll"]
    /\ io' = {}
    /\ fired' = 1
    /\ UNCHANGED <<now, workspaceFolders, workspaceProjectId,
                   ensuringProject, resolver, svcCache, backendProjects,
                   backendDebts, epoch>>

(* ------------------------------ environment ---------------------------- *)
\* time passes.  The program reads the clock only to stamp an entry it
\* stores and to take the age of a stored entry (Date.now() - fetchedAt,
\* Date.now() - timestamp): while neither cache holds an entry the clock
\* shows nothing, and the minutes are counted from the first stored answer.
Tick ==
    /\ Quiet
    /\ now < MaxNow
    /\ cache # <<>> \/ svcCache # {}
    /\ now' = now + 1
    /\ io' = {}
    /\ fired' = 0
    /\ ret' = NoRet
    /\ UNCHANGED <<workspaceFolders, workspaceProjectId, ensuringProject,
                   resolver, cache, svcCache, backendProjects, backendDebts,
                   calls, epoch, started>>

\* the user opens or closes the workspace folder
ChangeWorkspaceFolders ==
    /\ Quiet
    /\ workspaceFolders' = IF Len(workspaceFolders) = 0 THEN <<FolderPath(platform)>> ELSE <<>>
    /\ io' = {}
    /\ fired' = 0
    /\ ret' = NoRet
    /\ UNCHANGED <<now, workspaceProjectId, ensuringProject, resolver,
                   cache, svcCache, backendProjects, backendDebts, calls, epoch, started>>

\* somebody else resolves or reopens the debt of a file in the backend
BackendChange(f) ==
    /\ Quiet
    /\ started < MaxEvents
    /\ started' = started + 1
    /\ backendDebts' = [backendDebts EXCEPT ![f] = IF @ = "open" THEN "resolved" ELSE "open"]
    /\ io' = {}
    /\ fired' = 0
    /\ ret' = NoRet
    /\ UNCHANGED <<now, workspaceFolders, workspaceProjectId,
                   ensuringProject, resolver, cache, svcCache, backendProjects,
                   calls, epoch>>

\* the operations of FileDebtIndex, called from outside the views: the views
\* are left as they are
Next ==
    \/ \E s \in Slots : EnsureProjectCall(s) /\ UNCHANGED viewVars
    \/ ResolverLookupDone /\ UNCHANGED viewVars
    \/ ResolverCreateDone /\ UNCHANGED viewVars
    \/ \E s \in Slots, doc \in Documents(platform), forceRefresh \in BOOLEAN :
          ScanFileCall(s, doc, forceRefresh) /\ UNCHANGED viewVars
    \/ \E s \in Slots, forceRescan \in BOOLEAN :
          RefreshAllCachedCall(s, forceRescan) /\ UNCHANGED viewVars
    \/ \E s \in Slots : Resume(s) /\ UNCHANGED viewVars
    \/ \E s \in Slots : FetchRespond(s) /\ UNCHANGED viewVars
    \/ \E s \in Slots, debt \in CachedDebtSet(cache), st \in UiStatuses :
          UpdateDebtStatusCall(s, debt, st) /\ UNCHANGED viewVars
    \/ \E s \in Slots : UpdateDebtStatusDone(s) /\ UNCHANGED viewVars
    \/ \E doc \in FileDocuments(platform) : GetCachedFileDebts(doc) /\ UNCHANGED viewVars
    \/ \E filePath \in Spellings(platform) :
          GetCachedDebtsByPath(filePath) /\ UNCHANGED viewVars
    \/ ClearAll /\ UNCHANGED viewVars
    \/ Tick /\ UNCHANGED viewVars
    \/ ChangeWorkspaceFolders /\ UNCHANGED viewVars
    \/ \E f \in Files : BackendChange(f) /\ UNCHANGED viewVars

Spec == Init /\ [][Next]_vars

(* ------------------- the answers of the backend at large --------------- *)
\* scanFile(f, false) after its request has been sent, with the answer the
\* backend is about to give
InFlight(f, resp) ==
    LET filePath == FsPath(platform, f)
    IN [NoCall EXCEPT !.op = "scan", !.pc = "http", !.filePath = filePath,
                      !.key = normalizePath(filePath), !.pid = "p1",
                      !.lookup = <<resolvePathForRequest(platform, <<FolderPath(platform)>>,
                                                         filePath)>>,
                      !.resp = resp]

\* the project is resolved, the Map is empty and the two files are being
\* scanned; the backend answers each request with any of WireAnswers
AnswerInit ==
    /\ now = 0
    /\ workspaceFolders = <<FolderPath(platform)>>
    /\ workspaceProjectId = "p1"
    /\ ensuringProject = "none"
    /\ resolver = IdleResolver
    /\ cache = <<>>
    /\ svcCache = {}
    /\ backendProjects = {"p1"}
    /\ backendDebts = [f \in Files |-> "open"]
    /\ \E ra \in WireAnswers("a"), rb \in WireAnswers("B") :
          calls = [s \in Slots |-> IF s = 1 THEN InFlight("a", ra)
                                   ELSE IF s = 2 THEN InFlight("B", rb)
                                   ELSE NoCall]
    /\ io = {"getFileDebts", "http.getFileDebts"}
    /\ fired = 0
    /\ ret = NoRet
    /\ epoch = NoEpoch
    /\ started = 0
    /\ activeEditor = Null
    /\ stale = {}
    /\ ViewsAtRest

AnswerNext ==
    \/ \E s \in Slots : FetchRespond(s) /\ UNCHANGED viewVars
    \/ \E s \in Slots, debt \in CachedDebtSet(cache), st \in UiStatuses :
          UpdateDebtStatusCall(s, debt, st) /\ UNCHANGED viewVars
    \/ \E s \in Slots : UpdateDebtStatusDone(s) /\ UNCHANGED viewVars
    \/ ClearAll /\ UNCHANGED viewVars
    \/ AggregateWorkspaceDebts /\ UNCHANGED viewVars

AnswerSpec == AnswerInit /\ [][AnswerNext]_vars

(* ----------------------- two scans of the same file ------------------- *)
\* the answers of the backend to a debt request of file a that differ in
\* their records: none, one, or two in either order of their lines
RaceAnswers == {r \in WireAnswers("a") : Len(r) = 1 => r[1].severity = "HIGH"}

\* the project is resolved, the Map is empty and file a is being scanned by
\* two calls at once: both have missed the Map and sent their requests, and
\* the backend, whose records may change between the two requests, answers
\* each with any of RaceAnswers
RaceInit ==
    /\ now = 0
    /\ workspaceFolders = <<FolderPath(platform)>>
    /\ workspaceProjectId = "p1"
    /\ ensuringProject = "none"
    /\ resolver = IdleResolver
    /\ cache = <<>>
    /\ svcCache = {}
    /\ backendProjects = {"p1"}
    /\ backendDebts = [f \in Files |-> "open"]
    /\ \E r1 \in RaceAnswers, r2 \in RaceAnswers :
          calls = [s \in Slots |-> IF s = 1 THEN InFlight("a", r1)
                                   ELSE IF s = 2 THEN InFlight("a", r2)
                                   ELSE NoCall]
    /\ io = {"getFileDebts", "http.getFileDebts"}
    /\ fired = 0
    /\ ret = NoRet
    /\ epoch = NoEpoch
    /\ started = 0
    /\ activeEditor = Null
    /\ stale = {}
    /\ ViewsAtRest

\* the answers come in either order; further scans of the file are called
\* while the first ones wait
RaceNext ==
    \/ \E s \in Slots : FetchRespond(s) /\ UNCHANGED viewVars
    \/ \E s \in Slots, forceRefresh \in BOOLEAN :
          ScanFileCall(s, DocOf("a"), forceRefresh) /\ UNCHANGED viewVars
    \/ Tick /\ UNCHANGED viewVars

RaceSpec == RaceInit /\ [][RaceNext]_vars

(* ------------------------- the lines of the records -------------------- *)
\* the values a field that names a line can carry: none, the empty string,
\* zero, a negative number, a string that is no number, and line numbers
WireLines == {Null, "", "0", "-5", "abc", "3", "10"}

\* the same for the fields of the metadata, with a line number that is
\* none of the record's own
MetadataLines == {Null, "", "0", "-5", "abc", "20"}

\* the metadata a record can carry: none, an object without a location, an
\* object with a location
WireMetadata ==
    {NoMetadata}
    \cup [object : {TRUE}, location : {FALSE}, locationLine : {Null}, line : MetadataLines]
    \cup [object : {TRUE}, location : {TRUE}, locationLine : MetadataLines,
          line : {Null, "3"}]

\* the project is resolved, the Map is empty and file a is being scanned;
\* the backend answers with one record whose line and metadata are any of
\* WireLines and WireMetadata
LineInit ==
    /\ now = 0
    /\ workspaceFolders = <<FolderPath(platform)>>
    /\ workspaceProjectId = "p1"
    /\ ensuringProject = "none"
    /\ resolver = IdleResolver
    /\ cache = <<>>
    /\ svcCache = {}
    /\ backendProjects = {"p1"}
    /\ backendDebts = [f \in Files |-> "open"]
    /\ \E line \in WireLines, metadata \in WireMetadata :
          calls = [s \in Slots |->
                      IF s = 1
                      THEN InFlight("a", <<[id |-> "dA", file_path |-> <<"a">>,
                                            line |-> line, severity |-> "high",
                                            status |-> "open", metadata |-> metadata]>>)
                      ELSE NoCall]
    /\ io = {"getFileDebts", "http.getFileDebts"}
    /\ fired = 0
    /\ ret = NoRet
    /\ epoch = NoEpoch
    /\ started = 0
    /\ activeEditor = Null
    /\ stale = {}
    /\ ViewsAtRest

\* the answer comes and the consumers read the list
LineNext ==
    \/ \E s \in Slots : FetchRespond(s) /\ UNCHANGED viewVars
    \/ \E doc \in FileDocuments(platform) : GetCachedFileDebts(doc) /\ UNCHANGED viewVars

LineSpec == LineInit /\ [][LineNext]_vars

(* ------------------------ the statuses of the records ------------------ *)
\* the status values a backend record can carry: the four of the backend in
\* lower case, two of them in upper case, the empty string, none at all
\* (Null) and a word that is no status
StatusInputs ==
    {"open", "OPEN", "in_progress", "resolved", "ignored", "IGNORED", "", Null, "closed"}

\* the project is resolved and nothing is cached; the debt of file a has any
\* of StatusInputs in the backend
StatusInit ==
    /\ now = 0
    /\ workspaceFolders = <<FolderPath(platform)>>
    /\ workspaceProjectId = "p1"
    /\ ensuringProject = "none"
    /\ resolver = IdleResolver
    /\ cache = <<>>
    /\ svcCache = {}
    /\ backendProjects = {"p1"}
    /\ \E st \in StatusInputs :
          backendDebts = [f \in Files |-> IF f = "a" THEN st ELSE "open"]
    /\ calls = [s \in Slots |-> NoCall]
    /\ io = {}
    /\ fired = 0
    /\ ret = NoRet
    /\ epoch = NoEpoch
    /\ started = 0
    /\ activeEditor = Null
    /\ stale = {}
    /\ ViewsAtRest

\* file a is scanned and the status of its debt is set from the interface
StatusNext ==
    \/ \E s \in Slots, forceRefresh \in BOOLEAN :
          ScanFileCall(s, DocOf("a"), forceRefresh) /\ UNCHANGED viewVars
    \/ \E s \in Slots : FetchRespond(s) /\ UNCHANGED viewVars
    \/ \E s \in Slots, debt \in CachedDebtSet(cache), st \in DebtStatuses :
          UpdateDebtStatusCall(s, debt, st) /\ UNCHANGED viewVars
    \/ \E s \in Slots : UpdateDebtStatusDone(s) /\ UNCHANGED viewVars

StatusSpec == StatusInit /\ [][StatusNext]_vars

(* -------------------------------- the views --------------------------- *)
\* the file a path names
FileOfPath(filePath) == CHOOSE f \in Files : FsPath(platform, f) = filePath

\* document.lineCount: file a is long, file B ends before the line of its debt
lineCount(fsPath) == IF fsPath = FsPath(platform, "a") THEN 20 ELSE 5

\* a step of the views that calls no method of FileDebtIndex
CoreIdle ==
    /\ io' = {}
    /\ fired' = 0
    /\ ret' = NoRet
    /\ UNCHANGED <<now, workspaceFolders, workspaceProjectId, ensuringProject,
                   resolver, cache, svcCache, backendProjects, backendDebts,
                   calls, epoch, started>>

\* a command or an editor event that calls no method of FileDebtIndex
ViewEvent ==
    /\ started < MaxEvents
    /\ started' = started + 1
    /\ io' = {}
    /\ fired' = 0
    /\ ret' = NoRet
    /\ UNCHANGED <<now, workspaceFolders, workspaceProjectId, ensuringProject,
                   resolver, cache, svcCache, backendProjects, backendDebts,
                   calls, epoch>>

\* no continuation of the views is ready to run: updateDebtAndRefresh goes
\* on before the next event is taken
ViewQuiet == command.pc # "refresh" /\ ~timerReady /\ tree.pc # "ready"

\* the listeners of FileDebtIndex.onDidChange that activate() registers:
\* the views told to refresh when the event has fired n times
OnDidChange(n) == IF n >= 1 THEN {"tree"} ELSE {}

\* InlineDebtDecorator.apply: the zero-based line of a debt
zeroBased(line) == Max(0, IF line = NaN THEN NaN ELSE line - 1)

\* InlineDebtDecorator.apply(editor, debts): the decorations of the editor
\* after the call, in the order of the debts.  A debt past the end of the
\* document is skipped; lineAt throws for a line that is no number, before
\* any decoration type is set
apply(old, debts, lines) ==
    IF \E i \in 1..Len(debts) : zeroBased(debts[i].line) = NaN
    THEN old
    ELSE LET shown == SelectSeq(debts, LAMBDA d :
                         /\ ~(zeroBased(d.line) # NaN /\ zeroBased(d.line) >= lines)
                         /\ d.severity \in {"low", "medium", "high", "critical"})
         IN [i \in 1..Len(shown) |->
                [severity |-> shown[i].severity, line |-> zeroBased(shown[i].line)]]

\* faulty variant of clearAllEditors: the editors are left as they are
clearAllEditorsSkipped(decs) == decs

\* InlineDebtDecorator.clearAllEditors: every decoration type is set to the
\* empty list on every visible editor
clearAllEditors(decs) == [f \in DOMAIN decs |-> <<>>]

\* apply() is run on the editor of file f with the list a scan has returned
Applied(f, debts) ==
    decorations' = [decorations EXCEPT
                       ![f] = apply(@, debts, lineCount(FsPath(platform, f)))]

\* refresh() of the tree and of the CodeLens provider fire the event that
\* makes the editor ask the provider again
Refreshed(who) ==
    /\ notified' = who
    /\ stale' = stale \cup (who \cap {"tree", "lens"})

\* the HTTP debt requests sent in the step
SentFor(f) ==
    \E s \in Slots : /\ calls[s].pc # "http"
                     /\ calls'[s].pc = "http"
                     /\ calls'[s].filePath = FsPath(platform, f)

\* the requests of the step are noted
Noted == requested' = [f \in Files |-> IF SentFor(f) THEN now ELSE requested[f]]

\* a user command starts the count anew
Forgotten == requested' = [f \in Files |-> -1]

\* the scanFile call of the step has returned in the step
ScanReturned == ret'.op = "scanFile"

\* InlineDebtDecorator.refreshActiveEditor(forceScan), with the decorator
\* enabled and an active editor: scanFile is called and, when it has
\* returned, the decorations are applied; `who` awaits the call, `after` is
\* what the caller of refreshActiveEditor refreshes next
RefreshActiveEditor(forceScan, who, after) ==
    \E s \in Slots :
       /\ ScanFileCall(s, DocOf(activeEditor'), forceScan)
       /\ IF ScanReturned
          THEN /\ cont' = cont
               /\ Applied(activeEditor', ret'.list)
               /\ Refreshed({"decorator"} \cup after \cup OnDidChange(fired'))
          ELSE /\ cont' = [cont EXCEPT ![s] = who]
               /\ decorations' = decorations
               /\ Refreshed(IF who = "command" THEN {} ELSE after)

\* faulty variant of nextMode: the target is taken as it comes
nextModeAsGiven(target, current) == target

\* the technicalDebt.switchViewMode command, from the palette (no target)
\* or from the switcher item of the tree (the other mode as target)
nextMode(target, current) ==
    IF target # Null THEN target
    ELSE IF current = "FILE" THEN "WORKSPACE" ELSE "FILE"

SwitchViewMode(target) ==
    /\ ViewQuiet
    /\ Quiet
    /\ viewMode' = nextMode(target, viewMode)
    /\ Refreshed(IF viewMode' # viewMode THEN {"tree"} ELSE {})
    /\ ViewEvent
    /\ Forgotten
    /\ UNCHANGED <<timerVars, tree, decorations,
                   enabled, activeEditor, cont, command, lenses>>

\* the technicalDebt.toggleInlineDebts command: setEnabled(!enabled)
ToggleInlineDebts ==
    /\ ViewQuiet
    /\ Quiet
    /\ enabled' = ~enabled
    /\ activeEditor' = activeEditor
    /\ IF ~enabled'
       THEN /\ ViewEvent
            /\ cont' = cont
            /\ decorations' = clearAllEditors(decorations)
            /\ Refreshed({})
       ELSE IF activeEditor = Null
       THEN ViewEvent /\ cont' = cont /\ decorations' = decorations /\ Refreshed({})
       ELSE RefreshActiveEditor(FALSE, "decorator", {})
    /\ Forgotten
    /\ UNCHANGED <<timerVars, tree, viewMode, command, lenses>>

\* another editor becomes the active one, or the last one is closed:
\* onDidChangeVisibleTextEditors refreshes the tree,
\* onDidChangeActiveTextEditor refreshes the decorator, the lenses and the tree
ChangeActiveEditor(f) ==
    /\ ViewQuiet
    /\ Quiet
    /\ f # activeEditor
    /\ activeEditor' = f
    /\ enabled' = enabled
    /\ IF f = Null
       THEN ViewEvent /\ cont' = cont /\ decorations' = decorations /\ Refreshed({"tree"})
       ELSE IF ~enabled
       THEN /\ ViewEvent
            /\ cont' = cont
            /\ decorations' = decorations
            /\ Refreshed({"lens", "tree"})
       ELSE RefreshActiveEditor(FALSE, "decorator", {"lens", "tree"})
    /\ Noted
    /\ UNCHANGED <<timerVars, tree, viewMode, command, lenses>>

\* the editor asks the tree for its root items: getChildren(undefined).  In
\* FILE mode getFileRootItems scans the document of the active editor; in
\* WORKSPACE mode getWorkspaceDebts asks for the project
GetChildren ==
    /\ ViewQuiet
    /\ Quiet
    /\ "tree" \in stale
    /\ IF viewMode = "FILE"
       THEN IF activeEditor = Null
            THEN /\ CoreIdle
                 /\ cont' = cont
                 /\ notified' = {}
                 /\ stale' = stale \ {"tree"}
            ELSE \E s \in Slots :
                    /\ ScanFileCall(s, DocOf(activeEditor), FALSE)
                    /\ cont' = IF ScanReturned THEN cont ELSE [cont EXCEPT ![s] = "tree"]
                    /\ notified' = OnDidChange(fired')
                    /\ stale' = (stale \ {"tree"}) \cup notified'
       ELSE \E s \in Slots :
               /\ EnsureProjectCall(s)
               /\ cont' = IF ret'.op = "ensureProject" THEN cont
                          ELSE [cont EXCEPT ![s] = "tree"]
               /\ notified' = {}
               /\ stale' = stale \ {"tree"}
    /\ Noted
    /\ UNCHANGED <<timerVars, tree, decorations,
                   viewMode, enabled, activeEditor, command, lenses>>

\* the lens that asks for a scan (range 0,0,0,0)
ScanLens == [line |-> 0, command |-> "technicalDebt.scanFile", arg |-> <<>>, total |-> 0]

\* DebtCodeLensProviderNew.summarize: the counts the title shows
summarize(debts) ==
    [level \in {"low", "medium", "high", "critical"} |->
        Cardinality({i \in 1..Len(debts) : debts[i].severity = level})]

SummaryLens(debts) ==
    [line |-> 0, command |-> "technicalDebt.showFileDebts", arg |-> <<>>,
     total |-> Len(debts), counts |-> summarize(debts)]

RECURSIVE RowLenses(_, _)
\* the three lenses of every debt whose line is inside the document
RowLenses(debts, lines) ==
    IF Len(debts) = 0 THEN <<>>
    ELSE LET d == Head(debts)
             line == zeroBased(d.line)
             three == [i \in 1..3 |->
                          [line |-> line,
                           command |-> <<"technicalDebt.markDebt.inProgress",
                                         "technicalDebt.markDebt.resolved",
                                         "technicalDebt.markDebt.ignored">>[i],
                           arg |-> <<d>>, total |-> 0]]
         IN (IF line # NaN /\ line >= lines THEN <<>> ELSE three)
            \o RowLenses(Tail(debts), lines)

\* faulty variant of CodeLenses: nothing is shown for a file without debts
CodeLensesOfDebtsOnly(debts, lines) == RowLenses(debts, lines)

\* DebtCodeLensProviderNew.provideCodeLenses, from the list it has read
CodeLenses(debts, lines) ==
    (IF Len(debts) > 0 THEN <<SummaryLens(debts)>> ELSE <<ScanLens>>)
       \o RowLenses(debts, lines)

\* the editor asks for the lenses of a document of scheme "file"
ProvideCodeLenses(doc) ==
    /\ ViewQuiet
    /\ GetCachedFileDebts(doc)
    /\ lenses' = CodeLenses(ret'.list, lineCount(doc.fsPath))
    /\ stale' = stale \ {"lens"}
    /\ notified' = {}
    /\ UNCHANGED <<timerVars, tree, decorations,
                   viewMode, enabled, activeEditor, cont, command, requested>>

\* one of the technicalDebt.markDebt.* commands is run on a cached debt:
\* updateDebtAndRefresh up to its await of updateDebtStatus
MarkDebt(s, debt, st) ==
    /\ ViewQuiet
    /\ command.pc \in {"idle", "done"}
    /\ UpdateDebtStatusCall(s, debt, st)
    /\ cont' = [cont EXCEPT ![s] = "command"]
    /\ command' = [NoCommand EXCEPT !.pc = "update", !.debt = <<debt>>]
    /\ Refreshed({})
    /\ Forgotten
    /\ UNCHANGED <<timerVars, tree, decorations,
                   viewMode, enabled, activeEditor, lenses>>

\* updateDebtAndRefresh after updateDebtStatus has returned true:
\* refreshActive(true), then debtProvider.refresh()
MarkDebtRefresh ==
    /\ command.pc = "refresh"
    /\ UNCHANGED <<activeEditor, enabled>>
    /\ IF activeEditor = Null
       THEN /\ CoreIdle
            /\ cont' = cont
            /\ decorations' = decorations
            /\ Refreshed({"tree"})
            /\ command' = [command EXCEPT !.pc = "done"]
       ELSE IF ~enabled
       THEN /\ CoreIdle
            /\ cont' = cont
            /\ decorations' = decorations
            /\ Refreshed({"lens", "tree"})
            /\ command' = [command EXCEPT !.pc = "done"]
       ELSE /\ RefreshActiveEditor(TRUE, "command", {"lens", "tree"})
            /\ command' = [command EXCEPT !.pc = IF ScanReturned THEN "done" ELSE "scan",
                                           !.scanned = activeEditor]
    /\ Forgotten
    /\ UNCHANGED <<timerVars, tree, viewMode, lenses>>

\* the request of a scan is answered and the caller that awaited the scan
\* goes on: getFileRootItems builds its items, refreshActiveEditor applies
\* the decorations, refreshActive refreshes the lenses and the tree
ScanAnswered(s) ==
    /\ ViewQuiet
    /\ FetchRespond(s)
    /\ Refreshed(OnDidChange(fired')
                 \cup CASE cont[s] = "decorator" -> {"decorator"}
                         [] cont[s] = "command" -> {"decorator", "lens", "tree"}
                         [] OTHER -> {})
    /\ IF cont[s] \in {"decorator", "command"}
       THEN Applied(FileOfPath(calls[s].filePath), ret'.list)
       ELSE decorations' = decorations
    /\ cont' = [cont EXCEPT ![s] = "none"]
    /\ command' = IF cont[s] = "command" THEN [command EXCEPT !.pc = "done"] ELSE command
    /\ UNCHANGED <<timerVars, tree, viewMode, enabled, activeEditor, lenses, requested>>

\* the update is answered and updateDebtAndRefresh goes on: with true it is
\* ready to refresh, with false it shows the error message and ends
UpdateAnswered(s) ==
    /\ ViewQuiet
    /\ UpdateDebtStatusDone(s)
    /\ Refreshed(OnDidChange(fired'))
    /\ cont' = [cont EXCEPT ![s] = "none"]
    /\ command' = IF cont[s] # "command" THEN command
                  ELSE IF ret'.ok THEN [command EXCEPT !.pc = "refresh", !.ok = TRUE]
                  ELSE [command EXCEPT !.pc = "done"]
    /\ UNCHANGED <<timerVars, tree, decorations, viewMode, enabled, activeEditor, lenses,
                   requested>>

\* time passes
ViewTick ==
    /\ ViewQuiet
    /\ Tick
    /\ notified' = {}
    /\ UNCHANGED <<timerVars, tree, decorations,
                   viewMode, enabled, activeEditor, stale, cont, command,
                   lenses,
                   requested>>

\* the entry and the gateway's stored answer a successful scan of file f
\* at minute 0 leaves behind
ScannedItems(f) ==
    LET lookup == resolvePathForRequest(platform, <<FolderPath(platform)>>,
                                        FsPath(platform, f))
        resp == WireDebts([g \in Files |-> "open"], lookup.request)
    IN svcNormalize(platform, <<FolderPath(platform)>>,
                    [i \in 1..Len(resp) |-> apiMapFileDebt(resp[i], "p1")],
                    lookup.absolute)

\* the extension is active, the project is resolved, and no file or file a
\* has been scanned; any editor may be the active one, and the editor is
\* about to ask the tree and the lens provider for the first time
ViewInit ==
    /\ now = 0
    /\ workspaceFolders = <<FolderPath(platform)>>
    /\ workspaceProjectId = "p1"
    /\ ensuringProject = "none"
    /\ resolver = IdleResolver
    /\ backendProjects = {"p1"}
    /\ backendDebts = [f \in Files |-> "open"]
    /\ \E scanned \in BOOLEAN :
          IF scanned
          THEN /\ cache = fetchedCache(<<>>, normalizePath(FsPath(platform, "a")),
                                       FsPath(platform, "a"), TRUE, ScannedItems("a"), 0)
               /\ svcCache = setCachedData({}, SvcKey("p1",
                                 resolvePathForRequest(platform, <<FolderPath(platform)>>,
                                                       FsPath(platform, "a")).request),
                                 ScannedItems("a"), 0)
          ELSE cache = <<>> /\ svcCache = {}
    /\ calls = [s \in Slots |-> NoCall]
    /\ io = {}
    /\ fired = 0
    /\ ret = NoRet
    /\ epoch = NoEpoch
    /\ started = 0
    /\ activeEditor \in Files \cup {Null}
    /\ stale = {"tree", "lens"}
    /\ ViewsAtRest

ViewNext ==
    \/ \E target \in {Null, "FILE", "WORKSPACE"} : SwitchViewMode(target)
    \/ ToggleInlineDebts
    \/ \E f \in Files \cup {Null} : ChangeActiveEditor(f)
    \/ GetChildren
    \/ \E doc \in {d \in Documents(platform) : d.scheme = "file"} : ProvideCodeLenses(doc)
    \/ \E s \in Slots, debt \in CachedDebtSet(cache), st \in UiStatuses :
          MarkDebt(s, debt, st)
    \/ MarkDebtRefresh
    \/ \E s \in Slots : ScanAnswered(s)
    \/ \E s \in Slots : UpdateAnswered(s)
    \/ ViewTick

ViewSpec == ViewInit /\ [][ViewNext]_vars

(* ------------------------- refreshing what is cached ------------------ *)
\* the entry a successful scan of file f at minute t leaves in the Map
ScannedEntry(m, f, t) ==
    fetchedCache(m, normalizePath(FsPath(platform, f)), FsPath(platform, f), TRUE,
                 ScannedItems(f), t)

\* the response such a scan leaves in the gateway
ScannedResponse(sc, f, t) ==
    setCachedData(sc, SvcKey("p1", resolvePathForRequest(platform, <<FolderPath(platform)>>,
                                                        FsPath(platform, f)).request),
                  ScannedItems(f), t)

\* minute 1 of a session: the project is resolved and both files have been
\* scanned, file a at minute 0 and then file B at minute 0 or 1; the gateway
\* holds the responses of these scans, or an update of another debt has made
\* it drop them
RefreshInit ==
    /\ now = 1
    /\ workspaceFolders = <<FolderPath(platform)>>
    /\ workspaceProjectId = "p1"
    /\ ensuringProject = "none"
    /\ resolver = IdleResolver
    /\ backendProjects = {"p1"}
    /\ backendDebts = [f \in Files |-> "open"]
    /\ \E t \in 0..1, stored \in BOOLEAN :
          /\ cache = ScannedEntry(ScannedEntry(<<>>, "a", 0), "B", t)
          /\ svcCache = IF stored
                        THEN ScannedResponse(ScannedResponse({}, "a", 0), "B", t)
                        ELSE {}
    /\ calls = [s \in Slots |-> NoCall]
    /\ io = {}
    /\ fired = 0
    /\ ret = NoRet
    /\ epoch = NoEpoch
    /\ started = 0
    /\ activeEditor = Null
    /\ stale = {}
    /\ ViewsAtRest

\* refreshAllCached, the answers to its requests, and what deletes entries
\* meanwhile; no scan is called
RefreshNext ==
    \/ \E s \in Slots, forceRescan \in BOOLEAN :
          RefreshAllCachedCall(s, forceRescan) /\ UNCHANGED viewVars
    \/ \E s \in Slots : FetchRespond(s) /\ UNCHANGED viewVars
    \/ \E s \in Slots, debt \in CachedDebtSet(cache), st \in UiStatuses :
          UpdateDebtStatusCall(s, debt, st) /\ UNCHANGED viewVars
    \/ \E s \in Slots : UpdateDebtStatusDone(s) /\ UNCHANGED viewVars
    \/ ClearAll /\ UNCHANGED viewVars
    \/ Tick /\ UNCHANGED viewVars

RefreshSpec == RefreshInit /\ [][RefreshNext]_vars

(* --------------------------- the refresh timer ------------------------- *)
\* faulty variant of timerSkips: the running flag is not looked at
timerSkipsUnguarded(running, folders) == Len(folders) = 0

\* the callback of setInterval returns at once: a cycle is running, or there
\* is no workspace folder
timerSkips(running, folders) == running \/ Len(folders) = 0

\* the try block of the callback ends and `finally` resets the flag: the
\* decorations are applied if refreshActiveEditor got that far, then the
\* lenses and the tree are refreshed; apply() may throw (lineAt rejects a
\* line that is no number), and then `catch` logs a warning and the lenses
\* and the tree are not refreshed
TimerCycleEnds(applies, f, debts) ==
    /\ autoRefreshRunning' = FALSE
    /\ \E threw \in {FALSE, applies} :
          /\ IF applies /\ ~threw THEN Applied(f, debts) ELSE decorations' = decorations
          /\ Refreshed(OnDidChange(fired')
                       \cup (IF threw THEN {}
                             ELSE IF applies THEN {"decorator", "lens", "tree"}
                             ELSE {"lens", "tree"}))

\* the timer fires: the callback up to its await of refreshAllCached(true)
TimerFires ==
    /\ refreshTimer.active # {}
    /\ refreshTimer' = refreshTimer
    /\ ViewQuiet
    /\ Quiet
    /\ IF timerSkips(autoRefreshRunning, workspaceFolders)
       THEN /\ ViewEvent
            /\ Refreshed({})
            /\ UNCHANGED <<cont, timerVars>>
       ELSE \E s \in Slots :
               /\ RefreshAllCachedCall(s, TRUE)
               /\ autoRefreshRunning' = TRUE
               /\ timerReady' = (ret'.op = "refreshAllCached")
               /\ cont' = IF ret'.op = "refreshAllCached" THEN cont
                          ELSE [cont EXCEPT ![s] = "timer"]
               /\ Refreshed(OnDidChange(fired'))
    /\ UNCHANGED <<tree, decorations, viewMode, enabled, activeEditor, command, lenses,
                   requested>>

\* refreshAllCached has returned and the callback goes on:
\* refreshActiveEditor() returns at once (decorator disabled, no editor),
\* or it calls scanFile and awaits it
TimerContinue ==
    /\ refreshTimer' = refreshTimer
    /\ timerReady
    /\ timerReady' = FALSE
    /\ IF ~enabled \/ activeEditor = Null
       THEN /\ CoreIdle
            /\ cont' = cont
            /\ TimerCycleEnds(FALSE, activeEditor, <<>>)
       ELSE \E s \in Slots :
               /\ ScanFileCall(s, DocOf(activeEditor), FALSE)
               /\ IF ScanReturned
                  THEN /\ cont' = cont
                       /\ TimerCycleEnds(TRUE, activeEditor, ret'.list)
                  ELSE /\ cont' = [cont EXCEPT ![s] = "timerScan"]
                       /\ autoRefreshRunning' = autoRefreshRunning
                       /\ decorations' = decorations
                       /\ Refreshed(OnDidChange(fired'))
    /\ UNCHANGED <<tree, viewMode, enabled, activeEditor, command, lenses, requested>>

\* a debt request is answered: refreshAllCached goes on with its loop or
\* returns to the callback, or the scan of refreshActiveEditor returns and
\* the callback runs to its end
TimerAnswered(s) ==
    /\ refreshTimer' = refreshTimer
    /\ ViewQuiet
    /\ FetchRespond(s)
    /\ CASE cont[s] = "timer" /\ ret'.op = "refreshAllCached" ->
              /\ timerReady' = TRUE
              /\ autoRefreshRunning' = autoRefreshRunning
              /\ cont' = [cont EXCEPT ![s] = "none"]
              /\ decorations' = decorations
              /\ Refreshed(OnDidChange(fired'))
         [] cont[s] = "timer" /\ ret'.op # "refreshAllCached" ->
              /\ UNCHANGED <<cont, timerVars, decorations>>
              /\ Refreshed(OnDidChange(fired'))
         [] cont[s] = "timerScan" ->
              /\ timerReady' = FALSE
              /\ cont' = [cont EXCEPT ![s] = "none"]
              /\ TimerCycleEnds(TRUE, FileOfPath(calls[s].filePath), ret'.list)
         [] OTHER ->
              /\ UNCHANGED <<cont, timerVars, decorations>>
              /\ Refreshed(OnDidChange(fired'))
    /\ UNCHANGED <<tree, viewMode, enabled, activeEditor, command, lenses, requested>>

\* the extension is active and the project is resolved; no file, file a, or
\* both files have been scanned and the gateway has dropped their responses;
\* the workspace folder is open or has been closed, the decorator is
\* enabled or not, and any editor may be the active one
TimerInit ==
    /\ now = 0
    /\ workspaceFolders \in {<<>>, <<FolderPath(platform)>>}
    /\ workspaceProjectId = "p1"
    /\ ensuringProject = "none"
    /\ resolver = IdleResolver
    /\ backendProjects = {"p1"}
    /\ backendDebts = [f \in Files |-> "open"]
    /\ cache \in {<<>>, ScannedEntry(<<>>, "a", 0),
                  ScannedEntry(ScannedEntry(<<>>, "a", 0), "B", 0)}
    /\ svcCache = {}
    /\ calls = [s \in Slots |-> NoCall]
    /\ io = {}
    /\ fired = 0
    /\ ret = NoRet
    /\ epoch = NoEpoch
    /\ started = 0
    /\ activeEditor \in Files \cup {Null}
    /\ stale = {}
    /\ viewMode = initialViewMode
    /\ enabled \in BOOLEAN
    /\ notified = {}
    /\ cont = [s \in Slots |-> "none"]
    /\ command = NoCommand
    /\ lenses = <<>>
    /\ requested = [f \in Files |-> -1]
    /\ autoRefreshRunning = FALSE
    /\ timerReady = FALSE
    /\ refreshTimer = ActivatedTimer
    /\ tree = NoTree
    /\ decorations = NoDecorations

TimerNext ==
    \/ TimerFires
    \/ TimerContinue
    \/ \E s \in Slots : TimerAnswered(s)

TimerSpec == TimerInit /\ [][TimerNext]_vars

(* ------------------------ the root items of the tree ------------------- *)
\* a tree item: a ViewSwitcherTreeItem (its label names the mode it switches
\* to), a FileTreeItem (its label is the path of the file) or an EmptyTreeItem
Item(type, label, count) == [type |-> type, label |-> label, debtCount |-> count]
ViewSwitcherTreeItem(target) == Item("switcher", <<target>>, 0)
EmptyTreeItem == Item("empty", <<>>, 0)
FileTreeItem(filePath, count) == Item("file", filePath, count)

\* getFileRootItems: the items, from the documents of the open editors (none
\* or one) and the list scanFile has returned
getFileRootItems(docs, debts) ==
    <<ViewSwitcherTreeItem("WORKSPACE")>>
    \o (IF Len(docs) = 0
        THEN <<EmptyTreeItem>>
        ELSE <<FileTreeItem(docs[1], Len(debts))>>
             \o (IF Len(debts) > 0 THEN <<>> ELSE <<EmptyTreeItem>>))

\* ApiClient.getProjectDebts: mapSeverity
apiMapSeverity(raw) ==
    LET v == StrLower(IF Truthy(raw) THEN raw ELSE "")
    IN IF v \in {"critical", "high", "medium"} THEN v ELSE "low"

\* ApiClient.getProjectDebts: one record of the response as a DebtItem
apiMapProjectDebt(d, projectId) ==
    [id |-> d.id,
     projectId |-> projectId,
     filePath |-> d.file_path,
     severity |-> apiMapSeverity(d.severity),
     status |-> mapStatusFromServer(d.status),
     metadata |-> apiMetadata(d)]

\* DebtService cache key `debts:${projectId}:{}`
ProjectKey(projectId) == <<projectId, <<"debts">>>>

\* TechnicalDebtProvider.resolveWorkspacePath, for a path that is absolute or
\* relative to the workspace root and has no "." and ".." segments (without
\* a workspace folder the working directory is left out): the absolute path
\* and the path below the workspace root
resolveWorkspacePath(plat, folders, rawPath) ==
    LET normalizedRaw == BackToSlash(rawPath)
        absolutePath ==
            IF Len(rawPath) = 0
            THEN IF Len(folders) > 0 THEN folders[1] ELSE <<>>
            ELSE IF pathIsAbsolute(plat, rawPath) \/ pathIsAbsolute(plat, normalizedRaw)
            THEN pathNormalize(plat, rawPath)
            ELSE IF Len(folders) > 0
            THEN pathJoin(plat, folders[1], normalizedRaw)
            ELSE pathNormalize(plat, normalizedRaw)
        root == IF Len(folders) > 0 THEN folders[1] \o <<Sep(plat)>> ELSE <<>>
        below == Len(folders) > 0
                 /\ Len(absolutePath) > Len(root)
                 /\ StartsWith(ToLowerCase(absolutePath), ToLowerCase(root))
    IN [absolutePath |-> absolutePath,
        relativePath |-> IF below
                         THEN BackToSlash(SubSeq(absolutePath, Len(root) + 1,
                                                 Len(absolutePath)))
                         ELSE absolutePath]

RECURSIVE groupDebts(_, _, _)
\* getWorkspaceRootItems, lines 1534-1546: the debts grouped by their
\* resolved path, the groups in the order in which their first debt comes
groupDebts(plat, folders, debts) ==
    IF Len(debts) = 0 THEN <<>>
    ELSE LET rest == groupDebts(plat, folders, SubSeq(debts, 1, Len(debts) - 1))
             debt == debts[Len(debts)]
             resolution == resolveWorkspacePath(plat, folders, debt.filePath)
         IN IF \E i \in 1..Len(rest) : rest[i].resolvedPath = resolution.absolutePath
            THEN [i \in 1..Len(rest) |->
                     IF rest[i].resolvedPath = resolution.absolutePath
                     THEN [rest[i] EXCEPT !.debts = Append(@, debt)]
                     ELSE rest[i]]
            ELSE Append(rest, [resolvedPath |-> resolution.absolutePath,
                               relativePath |-> resolution.relativePath,
                               debts |-> <<debt>>])

\* TechnicalDebtProvider.pickWorstSeverityFromDebts (Null: undefined)
pickWorstSeverityFromDebts(debts) ==
    LET has(level) == \E i \in 1..Len(debts) : debts[i].severity = level
    IN CASE has("critical") -> "critical"
         [] has("high") -> "high"
         [] has("medium") -> "medium"
         [] has("low") -> "low"
         [] OTHER -> Null

\* severityOrder.indexOf
severityIndex(level) ==
    CASE level = "critical" -> 0
      [] level = "high" -> 1
      [] level = "medium" -> 2
      [] level = "low" -> 3
      [] OTHER -> -1

\* the comparator of groups.sort (lines 1550-1558)
compareGroups(a, b) ==
    LET worst(g) == IF pickWorstSeverityFromDebts(g.debts) = Null THEN "low"
                    ELSE pickWorstSeverityFromDebts(g.debts)
        severityDiff == severityIndex(worst(a)) - severityIndex(worst(b))
        name(g) == IF Len(g.relativePath) > 0 THEN g.relativePath ELSE g.resolvedPath
    IN IF severityDiff # 0 THEN severityDiff ELSE localeCompare(name(a), name(b))

RECURSIVE InsertGroup(_, _)
\* g put into the sorted list after the groups that are not greater
InsertGroup(g, sorted) ==
    IF Len(sorted) = 0 THEN <<g>>
    ELSE IF compareGroups(Head(sorted), g) <= 0
    THEN <<Head(sorted)>> \o InsertGroup(g, Tail(sorted))
    ELSE <<g>> \o sorted

\* faulty variant of sortGroups: the groups stay in the order of the Map
sortGroupsNot(groups, n) == SubSeq(groups, 1, n)

RECURSIVE sortGroups(_, _)
\* Array.prototype.sort (stable) with compareGroups: the first n groups sorted
sortGroups(groups, n) ==
    IF n = 0 THEN <<>> ELSE InsertGroup(groups[n], sortGroups(groups, n - 1))

\* getWorkspaceRootItems: the items, from the list getWorkspaceDebts has
\* returned
getWorkspaceRootItems(plat, folders, projectDebts) ==
    <<ViewSwitcherTreeItem("FILE")>>
    \o (IF Len(projectDebts) = 0
        THEN <<EmptyTreeItem>>
        ELSE LET all == groupDebts(plat, folders, projectDebts)
                 groups == sortGroups(all, Len(all))
             IN [i \in 1..Len(groups) |->
                    FileTreeItem(groups[i].resolvedPath, Len(groups[i].debts))]
                \o (IF Len(groups) = 0 THEN <<EmptyTreeItem>> ELSE <<>>))

\* faulty variant of workspaceDebts: the error of the gateway is not caught
workspaceDebtsUncaught(ok, debts) ==
    [threw |-> ~ok, list |-> IF ok THEN debts ELSE <<>>]

\* getWorkspaceDebts, lines 1590-1595: the list of the gateway, or the empty
\* list when the gateway has thrown
workspaceDebts(ok, debts) ==
    [threw |-> FALSE, list |-> IF ok THEN debts ELSE <<>>]

\* the answers of the backend to the debt request of the project: no
\* record, one record, records of two files (of different and of equal
\* severity), two records of one file, and records that name one file by a
\* relative and by an absolute path
ProjectAnswers ==
    LET rec(id, path, sev) == [id |-> id, file_path |-> path, line |-> "10",
                               severity |-> sev, status |-> "open",
                               metadata |-> NoMetadata]
    IN {<<>>,
        <<rec("dA", <<"a">>, "HIGH")>>,
        <<rec("dB", <<"B">>, "medium"), rec("dA", <<"a">>, "HIGH")>>,
        <<rec("dA", <<"a">>, "low"), rec("dA2", <<"a">>, "critical")>>,
        <<rec("dB", <<"B">>, "high"), rec("dA", <<"a">>, "HIGH")>>,
        <<rec("dA", <<"a">>, "low"), rec("dB", <<"B">>, "medium"),
          rec("dA2", FsPath(platform, "a"), "low")>>}

\* getChildren returns: the items, or the rejection
TreeReturned(threw, items) ==
    tree' = [pc |-> "idle", pid |-> Null, returned |-> tree.returned + 1,
             threw |-> threw, children |-> items]

\* getChildren(undefined) in FILE mode: getFileRootItems up to its await of
\* scanFile, and to its end when the scan returns at once.  One getChildren
\* call is under way at a time.
GetFileRootItems ==
    /\ ViewQuiet
    /\ Quiet
    /\ tree.pc = "idle"
    /\ "tree" \in stale
    /\ viewMode = "FILE"
    /\ IF activeEditor = Null
       THEN /\ CoreIdle
            /\ cont' = cont
            /\ notified' = {}
            /\ stale' = stale \ {"tree"}
            /\ TreeReturned(FALSE, getFileRootItems(<<>>, <<>>))
       ELSE \E s \in Slots :
               /\ ScanFileCall(s, DocOf(activeEditor), FALSE)
               /\ cont' = IF ScanReturned THEN cont ELSE [cont EXCEPT ![s] = "tree"]
               /\ notified' = OnDidChange(fired')
               /\ stale' = (stale \ {"tree"}) \cup notified'
               /\ IF ScanReturned
                  THEN TreeReturned(FALSE, getFileRootItems(<<DocOf(activeEditor).fsPath>>,
                                                            ret'.list))
                  ELSE tree' = [tree EXCEPT !.pc = "scan"]
    /\ Noted
    /\ UNCHANGED <<timerVars, decorations, viewMode, enabled, activeEditor, command,
                   lenses>>

\* getChildren(undefined) in WORKSPACE mode: getWorkspaceRootItems and
\* getWorkspaceDebts up to the await of ensureProject
GetWorkspaceRootItems ==
    /\ ViewQuiet
    /\ Quiet
    /\ tree.pc = "idle"
    /\ "tree" \in stale
    /\ viewMode = "WORKSPACE"
    /\ \E s \in Slots :
          /\ EnsureProjectCall(s)
          /\ cont' = IF ret'.op = "ensureProject" THEN cont
                     ELSE [cont EXCEPT ![s] = "tree"]
          /\ tree' = IF ret'.op = "ensureProject"
                     THEN [tree EXCEPT !.pc = "ready", !.pid = ret'.pid]
                     ELSE [tree EXCEPT !.pc = "ensure"]
    /\ notified' = {}
    /\ stale' = stale \ {"tree"}
    /\ Noted
    /\ UNCHANGED <<timerVars, decorations, viewMode, enabled, activeEditor, command,
                   lenses>>

\* the project resolution has settled and a call that awaited it goes on:
\* getWorkspaceDebts has its project id, scanFile looks at the Map
TreeResume(s) ==
    /\ Resume(s)
    /\ notified' = OnDidChange(fired')
    /\ stale' = stale \cup notified'
    /\ IF cont[s] # "tree"
       THEN UNCHANGED <<cont, tree>>
       ELSE IF calls[s].op = "ensure"
       THEN /\ cont' = [cont EXCEPT ![s] = "none"]
            /\ tree' = [tree EXCEPT !.pc = "ready", !.pid = calls[s].pid]
       ELSE IF ScanReturned
       THEN /\ cont' = [cont EXCEPT ![s] = "none"]
            /\ TreeReturned(FALSE, getFileRootItems(<<calls[s].filePath>>, ret'.list))
       ELSE UNCHANGED <<cont, tree>>
    /\ Noted
    /\ UNCHANGED <<timerVars, decorations, viewMode, enabled, activeEditor, command,
                   lenses>>

\* getWorkspaceDebts after ensureProject: without a project id the list is
\* empty; otherwise DebtService.getProjectDebts answers from its cache or
\* sends the request
GetWorkspaceDebts ==
    LET k == ProjectKey(tree.pid)
        hit == getCachedData(svcCache, k, now)
    IN /\ tree.pc = "ready"
       /\ fired' = 0
       /\ ret' = NoRet
       /\ notified' = {}
       /\ IF ~Truthy(tree.pid)
          THEN /\ io' = {}
               /\ svcCache' = svcCache
               /\ TreeReturned(FALSE, getWorkspaceRootItems(platform, workspaceFolders, <<>>))
          ELSE IF hit # <<>>
          THEN /\ io' = {"getProjectDebts"}
               /\ svcCache' = svcCache
               /\ TreeReturned(FALSE, getWorkspaceRootItems(platform, workspaceFolders,
                                                            hit[1]))
          ELSE /\ io' = {"getProjectDebts", "http.getProjectDebts"}
               /\ svcCache' = svcAfterGet(svcCache, k, now)
               /\ tree' = [tree EXCEPT !.pc = "projectDebts"]
       /\ UNCHANGED <<now, workspaceFolders, workspaceProjectId, ensuringProject,
                      resolver, cache, backendProjects, backendDebts, calls, epoch,
                      started>>
       /\ UNCHANGED <<timerVars, decorations, viewMode, enabled, activeEditor, stale,
                      cont, command, lenses, requested>>

\* the debt request of the project is answered, with a list or an error:
\* DebtService stores the list, getWorkspaceDebts catches the error, and
\* getWorkspaceRootItems builds its items
ProjectDebtsAnswered ==
    /\ ViewQuiet
    /\ Quiet
    /\ tree.pc = "projectDebts"
    /\ \E ok \in BOOLEAN, resp \in ProjectAnswers :
          LET debts == [i \in 1..Len(resp) |-> apiMapProjectDebt(resp[i], tree.pid)]
              r == workspaceDebts(ok, debts)
          IN /\ io' = {IF ok THEN "getProjectDebts:ok" ELSE "getProjectDebts:error"}
             /\ svcCache' = IF ok THEN setCachedData(svcCache, ProjectKey(tree.pid), debts, now)
                            ELSE svcCache
             /\ TreeReturned(r.threw,
                             IF r.threw THEN <<>>
                             ELSE getWorkspaceRootItems(platform, workspaceFolders, r.list))
    /\ fired' = 0
    /\ ret' = NoRet
    /\ notified' = {}
    /\ UNCHANGED <<now, workspaceFolders, workspaceProjectId, ensuringProject,
                   resolver, cache, backendProjects, backendDebts, calls, epoch,
                   started>>
    /\ UNCHANGED <<timerVars, decorations, viewMode, enabled, activeEditor, stale, cont,
                   command, lenses, requested>>

\* the debt request of a scan is answered and getFileRootItems builds its items
TreeScanAnswered(s) ==
    /\ ViewQuiet
    /\ FetchRespond(s)
    /\ notified' = OnDidChange(fired')
    /\ stale' = stale \cup notified'
    /\ cont' = [cont EXCEPT ![s] = "none"]
    /\ IF cont[s] = "tree"
       THEN TreeReturned(FALSE, getFileRootItems(<<calls[s].filePath>>, ret'.list))
       ELSE tree' = tree
    /\ UNCHANGED <<timerVars, decorations, viewMode, enabled, activeEditor, command,
                   lenses, requested>>

\* the visible editors have changed, to the same documents: the listener
\* of onDidChangeVisibleTextEditors calls refresh() of the tree.  The event
\* is taken while fewer than MaxEvents getChildren calls have returned.
VisibleEditorsChanged ==
    /\ ViewQuiet
    /\ Quiet
    /\ tree.returned < MaxEvents
    /\ "tree" \notin stale
    /\ CoreIdle
    /\ Refreshed({"tree"})
    /\ UNCHANGED <<timerVars, tree, decorations, viewMode, enabled, activeEditor, cont,
                   command, lenses, requested>>

\* the extension has been activated and no project is resolved yet: a
\* workspace folder is open or not, the backend knows the project or not;
\* the tree is in either mode and is about to be asked for its root items;
\* no editor or the editor of file a is the active one
TreeInit ==
    /\ now = 0
    /\ workspaceFolders \in {<<>>, <<FolderPath(platform)>>}
    /\ workspaceProjectId = Null
    /\ ensuringProject = "none"
    /\ resolver = IdleResolver
    /\ cache = <<>>
    /\ svcCache = {}
    /\ backendProjects \in {{}, {"p1"}}
    /\ backendDebts = [f \in Files |-> "open"]
    /\ calls = [s \in Slots |-> NoCall]
    /\ io = {}
    /\ fired = 0
    /\ ret = NoRet
    /\ epoch = NoEpoch
    /\ started = 0
    /\ activeEditor \in {Null, "a"}
    /\ stale = {"tree"}
    /\ viewMode \in {"FILE", "WORKSPACE"}
    /\ enabled = TRUE
    /\ notified = {}
    /\ cont = [s \in Slots |-> "none"]
    /\ command = NoCommand
    /\ lenses = <<>>
    /\ requested = [f \in Files |-> -1]
    /\ autoRefreshRunning = FALSE
    /\ timerReady = FALSE
    /\ refreshTimer = ActivatedTimer
    /\ tree = NoTree
    /\ decorations = NoDecorations

TreeNext ==
    \/ GetFileRootItems
    \/ GetWorkspaceRootItems
    \/ GetWorkspaceDebts
    \/ ProjectDebtsAnswered
    \/ \E s \in Slots : TreeResume(s)
    \/ \E s \in Slots : TreeScanAnswered(s)
    \/ ResolverLookupDone /\ tree.pc # "ready" /\ UNCHANGED viewVars
    \/ ResolverCreateDone /\ tree.pc # "ready" /\ UNCHANGED viewVars
    \/ \E target \in {Null, "FILE", "WORKSPACE"} : SwitchViewMode(target)
    \/ VisibleEditorsChanged

TreeSpec == TreeInit /\ [][TreeNext]_vars

(* --------------------------- the spellings of a path ------------------- *)
\* String.prototype.toUpperCase on one character of a path
UpperChar(c) ==
    CASE c = "a" -> "A"
      [] c = "b" -> "B"
      [] c = "w" -> "W"
      [] OTHER -> c

\* runs of separators: a slash, a backslash, and runs of two
SepRuns == {<<"/">>, <<"\\">>, <<"/", "/">>, <<"\\", "\\">>, <<"\\", "/">>}


\* the spellings of a letter that name the same file: on win32 the file
\* system does not tell the cases apart
Cases(plat, c) == IF plat = "win32" THEN {c, LowerChar(c), UpperChar(c)} ELSE {c}

\* the spellings of the path of file f: they differ from document.uri.fsPath
\* in the separator, in repeated separators, in trailing separators and, on
\* win32, in the case of the letter of the file
PathSpellings(plat, f) ==
    {<<k, "w">> \o mid \o <<x>> \o trail :
        k \in {"/", "\\"}, mid \in SepRuns, x \in Cases(plat, f),
        trail \in {<<>>, <<"/">>, <<"\\">>}}

\* per file, the spellings of its path
SpellingsOf == [f \in Files |-> PathSpellings(platform, f)]

\* the spellings under which a debt of file f comes to updateDebtStatus: the
\* path as the editor gives it, and paths that differ from it in one of the
\* four respects or in all of them
UpdateSpellings(plat, f) ==
    {FsPath(plat, f),
     BackToSlash(FsPath(plat, f)),
     FolderPath(plat) \o <<Sep(plat), Sep(plat), f>>,
     FsPath(plat, f) \o <<Sep(plat)>>,
     FolderPath(plat) \o <<Sep(plat), IF plat = "win32" THEN UpperChar(LowerChar(f)) ELSE f>>,
     <<"/", "w", "\\", "/">>
        \o <<IF plat = "win32" THEN UpperChar(LowerChar(f)) ELSE f, "/">>}

\* paths at the corners of normalizePath: the empty path, separators only,
\* a relative name
PathCorners ==
    {<<>>, <<"/">>, <<"\\">>, <<"\\", "/">>, <<"a">>, <<"a", "\\", "\\">>,
     <<"W", "/", "\\", "/">>}

\* the spellings under which the editor hands the path of file f to scanFile
ScanSpellings(plat, f) ==
    {FsPath(plat, f),
     FolderPath(plat) \o <<Sep(plat), IF plat = "win32" THEN UpperChar(LowerChar(f)) ELSE f>>,
     FolderPath(plat) \o <<Sep(plat), IF plat = "win32" THEN LowerChar(f) ELSE f>>}

\* the entry a successful scan of file f, opened under the spelling p,
\* leaves in the Map at minute t
SpelledEntry(m, f, p, t) == fetchedCache(m, normalizePath(p), p, TRUE, ScannedItems(f), t)

\* the project is resolved and file a, file B or no file has been scanned,
\* under one of the spellings of its path
PathInit ==
    /\ now = 0
    /\ workspaceFolders = <<FolderPath(platform)>>
    /\ workspaceProjectId = "p1"
    /\ ensuringProject = "none"
    /\ resolver = IdleResolver
    /\ backendProjects = {"p1"}
    /\ backendDebts = [f \in Files |-> "open"]
    /\ \/ cache = <<>>
       \/ \E f \in Files : \E p \in ScanSpellings(platform, f) :
             cache = SpelledEntry(<<>>, f, p, 0)
    /\ svcCache = {}
    /\ calls = [s \in Slots |-> NoCall]
    /\ io = {}
    /\ fired = 0
    /\ ret = NoRet
    /\ epoch = NoEpoch
    /\ started = 0
    /\ activeEditor = Null
    /\ stale = {}
    /\ ViewsAtRest

\* scans, reads by path and status updates; the reads and the updates name
\* the file by any spelling of its path
PathNext ==
    \/ \E s \in Slots, f \in Files :
          ScanFileCall(s, DocOf(f), FALSE) /\ UNCHANGED viewVars
    \/ \E s \in Slots : FetchRespond(s) /\ UNCHANGED viewVars
    \/ \E f \in Files : \E filePath \in SpellingsOf[f] :
          GetCachedDebtsByPath(filePath) /\ UNCHANGED viewVars
    \/ \E s \in Slots, debt \in CachedDebtSet(cache), st \in UiStatuses :
          \E filePath \in UpdateSpellings(platform, FileOfDebtId(debt.id)) :
             UpdateDebtStatusCall(s, [debt EXCEPT !.filePath = filePath], st)
             /\ UNCHANGED viewVars
    \/ \E s \in Slots : UpdateDebtStatusDone(s) /\ UNCHANGED viewVars

PathSpec == PathInit /\ [][PathNext]_vars

(* ---------------------- lenses and decorations of stale lines ---------- *)
\* the lines the location of a record's metadata carries: none, the last line of file
\* B and the line after it, the last line of file a and the line after it,
\* and a text that is no number
RenderLines == {Null, "5", "6", "20", "21", "abc"}

\* the answers of the backend to the debt request of file f: no record, one
\* record, two records, with lines of RenderLines
RenderAnswers(f) ==
    LET rec(id, line, sev) ==
            [id |-> id, file_path |-> <<f>>, line |-> "10", severity |-> sev,
             status |-> "open",
             metadata |-> [object |-> TRUE, location |-> TRUE, locationLine |-> line,
                           line |-> Null]]
    IN {<<>>}
       \cup {<<rec(DebtId(f), l1, "HIGH")>> : l1 \in RenderLines}
       \cup {<<rec(DebtId(f), l1, "HIGH"),
              rec(IF f = "a" THEN "dA2" ELSE "dB2", l2, "low")>> :
                l1 \in RenderLines, l2 \in RenderLines}

\* the project is resolved and the Map is empty; the editor of a file is the
\* active one and shows no decoration or one of an earlier scan;
\* refreshActiveEditor awaits the scan of the file, which the backend
\* answers with any of RenderAnswers
RenderInit ==
    /\ now = 0
    /\ workspaceFolders = <<FolderPath(platform)>>
    /\ workspaceProjectId = "p1"
    /\ ensuringProject = "none"
    /\ resolver = IdleResolver
    /\ cache = <<>>
    /\ svcCache = {}
    /\ backendProjects = {"p1"}
    /\ backendDebts = [f \in Files |-> "open"]
    /\ activeEditor \in Files
    /\ \E resp \in RenderAnswers(activeEditor) :
          calls = [s \in Slots |-> IF s = 1 THEN InFlight(activeEditor, resp) ELSE NoCall]
    /\ io = {"getFileDebts", "http.getFileDebts"}
    /\ fired = 0
    /\ ret = NoRet
    /\ epoch = NoEpoch
    /\ started = 1
    /\ stale = {"lens"}
    /\ viewMode = initialViewMode
    /\ enabled = TRUE
    /\ notified = {}
    /\ cont = [s \in Slots |-> IF s = 1 THEN "decorator" ELSE "none"]
    /\ command = NoCommand
    /\ lenses = <<>>
    /\ requested = [f \in Files |-> IF f = activeEditor THEN 0 ELSE -1]
    /\ autoRefreshRunning = FALSE
    /\ timerReady = FALSE
    /\ refreshTimer = ActivatedTimer
    /\ tree = NoTree
    /\ \E shown \in {<<>>, <<[severity |-> "medium", line |-> 0]>>} :
          decorations = [NoDecorations EXCEPT ![activeEditor] = shown]

\* the scan is answered and the decorations are applied; the editor asks for
\* the lenses; the user comes back to the editor
RenderNext ==
    \/ \E s \in Slots : ScanAnswered(s)
    \/ \E doc \in FileDocuments(platform) : ProvideCodeLenses(doc)
    \/ \E f \in Files : ChangeActiveEditor(f)

RenderSpec == RenderInit /\ [][RenderNext]_vars

(* ------------------------- the tree in WORKSPACE mode ------------------ *)
\* the project is resolved and the tree, in WORKSPACE mode, is about to be
\* asked for its root items; no file, file a or both files have been scanned
WorkspaceInit ==
    /\ now = 0
    /\ workspaceFolders = <<FolderPath(platform)>>
    /\ workspaceProjectId = "p1"
    /\ ensuringProject = "none"
    /\ resolver = IdleResolver
    /\ cache \in {<<>>, ScannedEntry(<<>>, "a", 0),
                  ScannedEntry(ScannedEntry(<<>>, "a", 0), "B", 0)}
    /\ svcCache = {}
    /\ backendProjects = {"p1"}
    /\ backendDebts = [f \in Files |-> "open"]
    /\ calls = [s \in Slots |-> NoCall]
    /\ io = {}
    /\ fired = 0
    /\ ret = NoRet
    /\ epoch = NoEpoch
    /\ started = 0
    /\ activeEditor = Null
    /\ stale = {"tree"}
    /\ viewMode = "WORKSPACE"
    /\ enabled = TRUE
    /\ notified = {}
    /\ cont = [s \in Slots |-> "none"]
    /\ command = NoCommand
    /\ lenses = <<>>
    /\ requested = [f \in Files |-> -1]
    /\ autoRefreshRunning = FALSE
    /\ timerReady = FALSE
    /\ refreshTimer = ActivatedTimer
    /\ tree = NoTree
    /\ decorations = NoDecorations

\* the root items are asked for, the project's debt request is answered,
\* and the tree is refreshed and asked again
WorkspaceNext ==
    \/ GetWorkspaceRootItems
    \/ GetWorkspaceDebts
    \/ ProjectDebtsAnswered
    \/ VisibleEditorsChanged

WorkspaceSpec == WorkspaceInit /\ [][WorkspaceNext]_vars

(* ------------------- the file_path of a response record ---------------- *)
OtherFile(f) == IF f = "a" THEN "B" ELSE "a"

\* the file_path a record of the answer to the request for file f can
\* carry: none, the request path, the absolute path with either separator,
\* the path of the other file of the workspace (relative or absolute), and
\* the absolute path of the file in a checkout that is not the workspace
RecordPaths(f) ==
    {<<>>, <<f>>, FsPath(platform, f), <<"/", "w", "/", f>>,
     <<OtherFile(f)>>, FsPath(platform, OtherFile(f)), <<"/", "s", "/", f>>}

RecordAnswers(f) ==
    {<<[id |-> DebtId(f), file_path |-> p, line |-> "10", severity |-> "HIGH",
        status |-> "open", metadata |-> NoMetadata]>> : p \in RecordPaths(f)}

\* the project is resolved, the Map is empty and one file is being scanned;
\* the backend answers with one record carrying any of RecordPaths
RecordInit ==
    /\ now = 0
    /\ workspaceFolders = <<FolderPath(platform)>>
    /\ workspaceProjectId = "p1"
    /\ ensuringProject = "none"
    /\ resolver = IdleResolver
    /\ backendProjects = {"p1"}
    /\ backendDebts = [f \in Files |-> "open"]
    /\ cache = <<>>
    /\ svcCache = {}
    /\ \E f \in Files : \E resp \in RecordAnswers(f) :
          calls = [s \in Slots |-> IF s = 1 THEN InFlight(f, resp) ELSE NoCall]
    /\ io = {}
    /\ fired = 0
    /\ ret = NoRet
    /\ epoch = NoEpoch
    /\ started = 0
    /\ activeEditor = Null
    /\ stale = {}
    /\ ViewsAtRest

\* the answer arrives; cached debts are read by the path of a file and
\* their status is updated
RecordNext ==
    \/ \E s \in Slots : FetchRespond(s) /\ UNCHANGED viewVars
    \/ \E f \in Files : GetCachedDebtsByPath(FsPath(platform, f)) /\ UNCHANGED viewVars
    \/ \E s \in Slots, debt \in CachedDebtSet(cache), st \in UiStatuses :
          UpdateDebtStatusCall(s, debt, st) /\ UNCHANGED viewVars
    \/ \E s \in Slots : UpdateDebtStatusDone(s) /\ UNCHANGED viewVars

RecordSpec == RecordInit /\ [][RecordNext]_vars

(* ----------------------------- forced rescans -------------------------- *)
\* the list a fetch of file f stores when the gateway reads backend bd
backendFileDebts(bd, f) ==
    LET lookup == resolvePathForRequest(platform, <<FolderPath(platform)>>,
                                        FsPath(platform, f))
        resp == WireDebts(bd, lookup.request)
    IN mapFileDebts(platform, <<FolderPath(platform)>>,
                    svcNormalize(platform, <<FolderPath(platform)>>,
                                 [i \in 1..Len(resp) |-> apiMapFileDebt(resp[i], "p1")],
                                 lookup.absolute),
                    FsPath(platform, f))

\* the project is resolved and file a, or both files, have been scanned at
\* minute 0: their entries are in the Map and the responses in the gateway
ForcedInit ==
    /\ now = 0
    /\ workspaceFolders = <<FolderPath(platform)>>
    /\ workspaceProjectId = "p1"
    /\ ensuringProject = "none"
    /\ resolver = IdleResolver
    /\ backendProjects = {"p1"}
    /\ backendDebts = [f \in Files |-> "open"]
    /\ \/ /\ cache = ScannedEntry(<<>>, "a", 0)
          /\ svcCache = ScannedResponse({}, "a", 0)
       \/ /\ cache = ScannedEntry(ScannedEntry(<<>>, "a", 0), "B", 0)
          /\ svcCache = ScannedResponse(ScannedResponse({}, "a", 0), "B", 0)
    /\ calls = [s \in Slots |-> NoCall]
    /\ io = {}
    /\ fired = 0
    /\ ret = NoRet
    /\ epoch = NoEpoch
    /\ started = 0
    /\ activeEditor = Null
    /\ stale = {}
    /\ ViewsAtRest

\* the debts change in the backend, time passes, and the files are scanned
\* and refreshed with the force flag
ForcedNext ==
    \/ \E f \in Files : BackendChange(f) /\ UNCHANGED viewVars
    \/ \E s \in Slots, f \in Files :
          ScanFileCall(s, DocOf(f), TRUE) /\ UNCHANGED viewVars
    \/ \E s \in Slots : RefreshAllCachedCall(s, TRUE) /\ UNCHANGED viewVars
    \/ \E s \in Slots : FetchRespond(s) /\ UNCHANGED viewVars
    \/ Tick /\ UNCHANGED viewVars

ForcedSpec == ForcedInit /\ [][ForcedNext]_vars

(* ----------------------- the timer and the settings -------------------- *)
\* the values of analysis.refreshInterval, in tenths of a second: -5, 0,
\* 0.5, 1, 9, 10 and 30 seconds
RawIntervals == {-50, 0, 5, 10, 90, 100, 300}

\* the configuration changes: the listener of activate() calls
\* scheduleAutoRefresh (what it does to the legacy decorator, the legacy
\* lens provider and the status bar is no state of these views)
ConfigChanged(raw) ==
    /\ ViewQuiet
    /\ Quiet
    /\ refreshTimer.created <= MaxEvents
    /\ refreshTimer' = scheduleAutoRefresh(refreshTimer, raw)
    /\ CoreIdle
    /\ Refreshed({})
    /\ UNCHANGED <<autoRefreshRunning, timerReady, tree, decorations, viewMode, enabled,
                   activeEditor, cont, command, lenses, requested>>

\* the extension has been activated with any refresh interval; the project
\* is resolved, the folder is open, and no file or file a has been scanned
ScheduleInit ==
    /\ now = 0
    /\ workspaceFolders = <<FolderPath(platform)>>
    /\ workspaceProjectId = "p1"
    /\ ensuringProject = "none"
    /\ resolver = IdleResolver
    /\ backendProjects = {"p1"}
    /\ backendDebts = [f \in Files |-> "open"]
    /\ cache \in {<<>>, ScannedEntry(<<>>, "a", 0)}
    /\ svcCache = {}
    /\ calls = [s \in Slots |-> NoCall]
    /\ io = {}
    /\ fired = 0
    /\ ret = NoRet
    /\ epoch = NoEpoch
    /\ started = 0
    /\ activeEditor \in {Null, "a"}
    /\ stale = {}
    /\ viewMode = initialViewMode
    /\ enabled = TRUE
    /\ notified = {}
    /\ cont = [s \in Slots |-> "none"]
    /\ command = NoCommand
    /\ lenses = <<>>
    /\ requested = [f \in Files |-> -1]
    /\ autoRefreshRunning = FALSE
    /\ timerReady = FALSE
    /\ \E raw \in RawIntervals : refreshTimer = scheduleAutoRefresh(NoTimer, raw)
    /\ tree = NoTree
    /\ decorations = NoDecorations

\* the settings change while the timer fires and its cycles run
ScheduleNext ==
    \/ \E raw \in RawIntervals : ConfigChanged(raw)
    \/ TimerFires
    \/ TimerContinue
    \/ \E s \in Slots : TimerAnswered(s)

ScheduleSpec == ScheduleInit /\ [][ScheduleNext]_vars

(* ----------------------------- properties ------------------------------ *)
\* what every step that makes a scanFile call in place s shows: the call has
\* returned, or it is suspended in place s
ScanShows(s) == ret'.op = "scanFile" \/ calls'[s].op = "scan"

\* what every step in which a debt fetch is answered shows
AnswerShows == io' \cap {"getFileDebts:ok", "getFileDebts:error"} # {}

\* a step in which the scanFile(doc, forceRefresh) call of place s gets past
\* the project check of line 107: the call is made while the id is memoized,
\* or it continues after the resolution it awaited has given it an id
ScanReachesCache(s, doc, forceRefresh) ==
    \/ /\ workspaceProjectId \notin {Null, ""}
       /\ ScanShows(s)
       /\ ScanFileCall(s, doc, forceRefresh)
    \/ /\ calls[s].op = "scan"
       /\ calls[s].filePath = doc.fsPath
       /\ calls[s].force = forceRefresh
       /\ calls[s].pid \notin {Null, ""}
       /\ Resume(s)

\* the entry of document doc in the Map m: <<entry>>, or <<>> when it has none
EntryOfDoc(m, doc) == SelectSeq(m, LAMBDA e : e.key = normalizePath(doc.fsPath))

\* C1: TTL correctness of scanFile.  A scanFile(F, false) call that finds the
\* entry an earlier successful scan has written performs no gateway debt
\* fetch and returns the cached list while now - fetchedAt < TTL, and
\* performs a gateway debt fetch once now - fetchedAt >= TTL.
TTLCorrectness ==
    [][\A s \in Slots, doc \in FileDocuments(platform) :
          LET e == EntryOfDoc(cache, doc)
          IN (ScanReachesCache(s, doc, FALSE) /\ Len(e) = 1) =>
                IF now - e[1].fetchedAt < ttlMs
                THEN /\ "getFileDebts" \notin io'
                     /\ ret'.op = "scanFile"
                     /\ ret'.list = e[1].debts
                ELSE "getFileDebts" \in io']_vars

\* a scanFile(F, false) call is fetching again while the Map still holds the
\* entry of F, which is past its TTL
TTLCorrectnessWitness ==
    \E s \in Slots :
       /\ calls[s].op = "scan"
       /\ calls[s].pc = "http"
       /\ ~calls[s].force
       /\ MapHas(cache, calls[s].key)
       /\ now - MapGet(cache, calls[s].key).fetchedAt >= ttlMs

\* C2: a scanFile(F, false) call made while the Map holds a fresh entry of F
\* (now - fetchedAt < TTL) performs no I/O at all: no debt fetch and no
\* project lookup or creation; it returns the cached list at once and leaves
\* no project resolution behind.
FreshHitNoIO ==
    [][\A s \in Slots, doc \in FileDocuments(platform) :
          LET e == EntryOfDoc(cache, doc)
          IN (ScanShows(s) /\ ScanFileCall(s, doc, FALSE)
                           /\ Len(e) = 1 /\ now - e[1].fetchedAt < ttlMs) =>
                /\ io' = {}
                /\ ret'.op = "scanFile"
                /\ ret'.list = e[1].debts
                /\ calls' = calls
                /\ resolver' = resolver
                /\ ensuringProject' = ensuringProject
                /\ cache' = cache
                /\ fired' = 0]_vars

\* a scan has just been answered from an entry that is one minute old
FreshHitNoIOWitness ==
    /\ ret.op = "scanFile"
    /\ ret.list # <<>>
    /\ io = {}
    /\ fired = 0
    /\ \E i \in 1..Len(cache) : cache[i].debts = ret.list /\ now - cache[i].fetchedAt = 1

\* C3: force-refresh bypass.  A scanFile(F, true) call with a project id
\* performs a gateway debt fetch whether the Map holds no entry of F, a fresh
\* one or an expired one, and when it returns the entry of F is the result
\* of that fetch (written at that moment), or is gone when the fetch failed.
ForceRefreshBypass ==
    [][\A s \in Slots, doc \in FileDocuments(platform) :
          /\ ScanReachesCache(s, doc, TRUE) =>
                /\ "getFileDebts" \in io'
                /\ ret'.op = "scanFile" =>
                      /\ Len(EntryOfDoc(cache', doc)) = 1
                      /\ EntryOfDoc(cache', doc)[1].debts = ret'.list
                      /\ EntryOfDoc(cache', doc)[1].fetchedAt = now
          /\ ( /\ calls[s].op = "scan"
               /\ calls[s].force
               /\ calls[s].filePath = doc.fsPath
               /\ AnswerShows
               /\ FetchRespond(s) ) =>
                LET e == EntryOfDoc(cache', doc)
                    resp == calls[s].resp
                IN /\ ret'.op = "scanFile"
                   /\ IF "getFileDebts:ok" \in io'
                      THEN /\ Len(e) = 1
                           /\ e[1].fetchedAt = now
                           /\ e[1].debts = ret'.list
                           /\ Len(e[1].debts) = Len(resp)
                           /\ \A i \in 1..Len(resp) :
                                 /\ e[1].debts[i].id = resp[i].id
                                 /\ e[1].debts[i].status = resp[i].status
                      ELSE Len(e) = 0]_vars

\* a forced scan is fetching while the Map holds a fresh entry of its file
ForceRefreshBypassWitness ==
    \E s \in Slots :
       /\ calls[s].op = "scan"
       /\ calls[s].pc = "http"
       /\ calls[s].force
       /\ MapHas(cache, calls[s].key)
       /\ now - MapGet(cache, calls[s].key).fetchedAt < ttlMs

\* what a cache-only read of the key of rawPath has to give: the debts of the
\* entry as they are stored, whatever its age, and [] when there is none
StoredList(m, rawPath) ==
    LET e == SelectSeq(m, LAMBDA x : x.key = normalizePath(rawPath))
    IN IF Len(e) = 1 THEN e[1].debts ELSE <<>>

\* C4: getCachedFileDebts and getCachedDebtsByPath are pure reads: they make
\* no gateway call, change neither the Map nor the memoized project id nor
\* any other state, fire no change event, and return the stored list (also
\* when the entry is past its TTL) or [] on a miss.
CacheReadsArePure ==
    [][/\ \A doc \in FileDocuments(platform) :
             GetCachedFileDebts(doc) =>
                /\ ret'.op = "getCachedFileDebts"
                /\ ret'.list = StoredList(cache, doc.fsPath)
                /\ io' = {} /\ fired' = 0
                /\ UNCHANGED <<cache, svcCache, workspaceProjectId, ensuringProject,
                               resolver, calls>>
       /\ \A filePath \in Spellings(platform) :
             GetCachedDebtsByPath(filePath) =>
                /\ ret'.op = "getCachedDebtsByPath"
                /\ ret'.list = StoredList(cache, filePath)
                /\ io' = {} /\ fired' = 0
                /\ UNCHANGED <<cache, svcCache, workspaceProjectId, ensuringProject,
                               resolver, calls>>]_vars

\* a read has just returned the debts of an entry that is past its TTL
CacheReadsArePureWitness ==
    /\ ret.op \in {"getCachedFileDebts", "getCachedDebtsByPath"}
    /\ ret.list # <<>>
    /\ \E i \in 1..Len(cache) :
          cache[i].debts = ret.list /\ now - cache[i].fetchedAt >= ttlMs

\* C5: invalidation on update.  When the gateway accepts updateDebtStatus(debt, s)
\* the call deletes the entry of the debt's file (and no other), fires the
\* change event and returns true; a read of a file without entry returns [],
\* and an entry comes back only through a debt fetch.
InvalidationOnUpdate ==
    [][/\ \A s \in Slots :
             (calls[s].op = "update" /\ "updateDebtStatus:ok" \in io'
                                     /\ UpdateDebtStatusDone(s)) =>
                LET debt == calls[s].debt[1]
                IN /\ ret'.op = "updateDebtStatus"
                   /\ ret'.ok
                   /\ fired' = 1
                   /\ \A i \in 1..Len(cache') :
                         /\ cache'[i].key # normalizePath(debt.filePath)
                         /\ \A j \in 1..Len(cache'[i].debts) : cache'[i].debts[j].id # debt.id
                   /\ cache' = SelectSeq(cache, LAMBDA e : debt \notin {e.debts[j] : j \in 1..Len(e.debts)})
       /\ \A doc \in FileDocuments(platform) :
             /\ (ret'.op = "getCachedFileDebts" /\ GetCachedFileDebts(doc)
                                                /\ Len(EntryOfDoc(cache, doc)) = 0) =>
                   ret'.list = <<>>
             /\ (cache' # cache /\ Len(EntryOfDoc(cache, doc)) = 0
                                /\ Len(EntryOfDoc(cache', doc)) = 1) =>
                   io' \cap {"getFileDebts", "getFileDebts:ok"} # {}
       /\ \A filePath \in Spellings(platform) :
             (ret'.op = "getCachedDebtsByPath" /\ GetCachedDebtsByPath(filePath)
                                                /\ ~MapHas(cache, normalizePath(filePath))) =>
                ret'.list = <<>>]_vars

\* an update has just been accepted and the Map has lost its only entry
InvalidationOnUpdateWitness ==
    /\ ret.op = "updateDebtStatus"
    /\ ret.ok
    /\ "updateDebtStatus:ok" \in io
    /\ fired = 1
    /\ cache = <<>>

\* C6: when the gateway rejects the update, updateDebtStatus returns false,
\* leaves every entry and its fetchedAt as they were and fires no change event.
RejectedUpdateLeavesCache ==
    [][\A s \in Slots :
          (calls[s].op = "update" /\ "updateDebtStatus:error" \in io'
                                  /\ UpdateDebtStatusDone(s)) =>
             /\ ret'.op = "updateDebtStatus"
             /\ ~ret'.ok
             /\ cache' = cache
             /\ fired' = 0]_vars

\* an update has just been rejected and the entry is still in the Map
RejectedUpdateLeavesCacheWitness ==
    /\ ret.op = "updateDebtStatus"
    /\ ~ret.ok
    /\ "updateDebtStatus:error" \in io
    /\ cache # <<>>

\* C7: failure drops, does not poison.  When the debt fetch for key K fails,
\* the Map has no entry of K afterwards, the change event is fired and a
\* scan returns []; when it succeeds, the entry of K holds exactly the
\* records of the response, written at that moment.
FailureDropsEntry ==
    [][\A s \in Slots :
          (calls[s].pc = "http" /\ AnswerShows /\ FetchRespond(s)) =>
             LET e == SelectSeq(cache', LAMBDA x : x.key = calls[s].key)
                 resp == calls[s].resp
             IN /\ fired' >= 1
                /\ IF "getFileDebts:error" \in io'
                   THEN /\ Len(e) = 0
                        /\ calls[s].op = "scan" => (ret'.op = "scanFile" /\ ret'.list = <<>>)
                   ELSE /\ Len(e) = 1
                        /\ e[1].fetchedAt = now
                        /\ Len(e[1].debts) = Len(resp)
                        /\ \A i \in 1..Len(resp) :
                              /\ e[1].debts[i].id = resp[i].id
                              /\ e[1].debts[i].status = resp[i].status
                        /\ calls[s].op = "scan" => ret'.list = e[1].debts]_vars

\* a scan has just failed after an earlier fetch had succeeded, and the Map
\* holds nothing
FailureDropsEntryWitness ==
    /\ "getFileDebts:error" \in io
    /\ ret.op = "scanFile"
    /\ ret.list = <<>>
    /\ fired = 1
    /\ svcCache # {}
    /\ cache = <<>>

\* C8: idempotent project resolution.  Over one resolution, however many
\* calls join it while it is in flight, there is one getProjectByPath lookup
\* and, when the lookup finds no project, one createProject call; every
\* caller that waited gets the same value, the id that is memoized.
ResolutionIsShared ==
    /\ epoch.lookups <= 1
    /\ epoch.creates <= 1
    /\ resolver.pc = "lookup" => (epoch.lookups = 1 /\ epoch.creates = 0)
    /\ resolver.pc = "create" => (epoch.lookups = 1 /\ epoch.creates = 1)
    /\ \A s \in Slots : calls[s].pc = "resume" => calls[s].pid = workspaceProjectId
    /\ ret.op = "ensureProject" => ret.pid = workspaceProjectId

\* two ensureProject calls are about to get the id of the project that one
\* lookup and one createProject have made in a backend without projects
ResolutionIsSharedWitness ==
    \E s, t \in Slots :
       /\ s # t
       /\ calls[s].op = "ensure" /\ calls[s].pc = "resume" /\ calls[s].pid = "p1"
       /\ calls[t].op = "ensure" /\ calls[t].pc = "resume" /\ calls[t].pid = "p1"
       /\ epoch.lookups = 1
       /\ epoch.creates = 1
       /\ backendProjects = {"p1"}

\* C9: project-id memoization.  Once an id is memoized it never changes, no
\* step looks a project up or creates one, and every ensureProject() call
\* returns that id at once without a gateway call, whatever the workspace
\* folders are.
MemoizedForever ==
    [][workspaceProjectId \notin {Null, ""} =>
          /\ workspaceProjectId' = workspaceProjectId
          /\ io' \cap {"getProjectByPath", "createProject"} = {}
          /\ \A s \in Slots :
                EnsureProjectCall(s) =>
                   /\ ret'.op = "ensureProject"
                   /\ ret'.pid = workspaceProjectId
                   /\ io' = {}]_vars

\* an ensureProject() call made after a scan has filled the Map has returned
\* the id while no workspace folder is open
MemoizedForeverWitness ==
    /\ ret.op = "ensureProject"
    /\ ret.pid \notin {Null, ""}
    /\ workspaceFolders = <<>>
    /\ cache # <<>>

\* what the no-workspace rule asks of a call made in place s: ensureProject
\* makes no gateway call and gives null, scanFile makes no debt fetch, writes
\* no entry, fires no event and gives [], refreshAllCached fetches nothing
NoWorkspaceOutcome(s) ==
    /\ EnsureProjectCall(s) =>
          /\ io' = {}
          /\ ret'.op = "ensureProject" => ret'.pid = Null
    /\ \A doc \in Documents(platform), forceRefresh \in BOOLEAN :
          ScanFileCall(s, doc, forceRefresh) =>
             /\ io' = {}
             /\ cache' = cache
             /\ fired' = 0
             /\ ret'.op = "scanFile" => ret'.list = <<>>
    /\ \A forceRescan \in BOOLEAN :
          RefreshAllCachedCall(s, forceRescan) =>
             /\ io' = {}
             /\ cache' = cache

\* the call made in place s returns in the step in which it is made
ReturnsAtOnce(s) ==
    (EnsureProjectCall(s)
       \/ (\E doc \in Documents(platform), forceRefresh \in BOOLEAN :
              ScanFileCall(s, doc, forceRefresh))
       \/ (\E forceRescan \in BOOLEAN : RefreshAllCachedCall(s, forceRescan)))
    => (ret'.op \in {"ensureProject", "scanFile", "refreshAllCached"} /\ calls' = calls)

\* C10: no-workspace is a soft condition.  With no workspace folder open, no
\* project id memoized and no resolution in flight, ensureProject() gives
\* null without a gateway call, scanFile gives [] without debt fetch, cache
\* write or change event, and refreshAllCached returns without fetching; each
\* of them returns at once.
NoWorkspaceIsSoft ==
    [][(Len(workspaceFolders) = 0 /\ workspaceProjectId = Null
                                  /\ ensuringProject # "pending") =>
          \A s \in Slots : NoWorkspaceOutcome(s) /\ ReturnsAtOnce(s)]_vars

\* a scan of a file has just returned [] with no folder open and nothing resolved
NoWorkspaceIsSoftWitness ==
    /\ ret.op = "scanFile"
    /\ ret.list = <<>>
    /\ io = {}
    /\ fired = 0
    /\ Len(workspaceFolders) = 0
    /\ workspaceProjectId = Null
    /\ ensuringProject = "settled_null"
    /\ started = 1

\* C10 as it is stated, for every state without workspace folder
NoWorkspaceIsSoftAlways ==
    [][Len(workspaceFolders) = 0 => \A s \in Slots : NoWorkspaceOutcome(s)]_vars

\* the documents scanFile turns away: not of scheme "file", or virtual
RejectedDocuments ==
    {doc \in Documents(platform) :
        doc.scheme # "file" \/ doc.outputMarker
                            \/ doc.scheme \in {"vscode-remote", "vscode-userdata"}}

\* C11: scanFile on a document that is not of scheme "file", or that is
\* virtual (output channel, vscode-remote, vscode-userdata), returns [] at
\* once and makes no gateway call: no project resolution is started or
\* joined, no debt is fetched, the Map is unchanged and no event is fired.
VirtualDocumentsAreSkipped ==
    [][\A s \in Slots, doc \in RejectedDocuments, forceRefresh \in BOOLEAN :
          (ScanShows(s) /\ ScanFileCall(s, doc, forceRefresh)) =>
             /\ ret'.op = "scanFile"
             /\ ret'.list = <<>>
             /\ io' = {}
             /\ fired' = 0
             /\ UNCHANGED <<cache, svcCache, calls, workspaceProjectId,
                            ensuringProject, resolver, epoch>>]_vars

\* a scan has returned [] at once, without any gateway call, although a
\* project id is memoized, the folder is open and the file's debts are cached
VirtualDocumentsAreSkippedWitness ==
    /\ ret.op = "scanFile"
    /\ ret.list = <<>>
    /\ io = {}
    /\ fired = 0
    /\ workspaceProjectId = "p1"
    /\ Len(workspaceFolders) = 1
    /\ Len(cache) = 1

\* C12: every step that changes the Map (an entry written by a successful
\* fetch, an entry deleted by a failed fetch or by an accepted update, the
\* Map emptied by clearAll) fires the change event in that same step, and
\* clearAll, a fetch answer and an accepted update always fire.
MutationsAreAnnounced ==
    [][/\ cache' # cache => fired' >= 1
       /\ ret'.op = "clearAll" => fired' = 1
       /\ AnswerShows => fired' >= 1
       /\ "updateDebtStatus:ok" \in io' => fired' = 1]_vars

\* clearAll has just emptied a Map that a successful fetch had filled (the
\* gateway cache still holds that fetch)
MutationsAreAnnouncedWitness ==
    /\ ret.op = "clearAll"
    /\ fired = 1
    /\ cache = <<>>
    /\ svcCache # {}

\* the value a public call resolves to when it has no project id
ResolvedWithoutProject(op) ==
    CASE op = "ensure" -> EnsureRet(Null)
      [] op = "scan" -> ScanRet(<<>>)
      [] op = "refresh" -> RefreshRet

\* C17: the public operations never reject.  Whatever the gateway answers,
\* the call resolves: when createProject fails every waiting call is handed
\* null and then resolves to null (ensureProject), [] (scanFile) or void
\* (refreshAllCached); when a debt fetch fails scanFile resolves to [] and
\* refreshAllCached goes on with its loop or resolves; when the update is
\* rejected updateDebtStatus resolves to false.
PublicCallsNeverReject ==
    [][/\ ( /\ resolver.pc = "create"
            /\ resolver'.pc = "idle"
            /\ backendProjects' = backendProjects
            /\ ResolverCreateDone ) =>
               /\ ensuringProject' = "none"
               /\ \A s \in Slots :
                     calls[s].pc = "ensure" =>
                        calls'[s] = [calls[s] EXCEPT !.pc = "resume", !.pid = Null]
       /\ \A s \in Slots :
             /\ ( /\ calls[s].pc = "resume"
                  /\ calls[s].pid = Null
                  /\ Resume(s) ) =>
                     /\ ret' = ResolvedWithoutProject(calls[s].op)
                     /\ calls'[s] = NoCall
             /\ ( /\ calls[s].pc = "http"
                  /\ "getFileDebts:error" \in io'
                  /\ FetchRespond(s) ) =>
                     IF calls[s].op = "scan"
                     THEN ret' = ScanRet(<<>>) /\ calls'[s] = NoCall
                     ELSE IF calls'[s] = NoCall
                     THEN ret' = RefreshRet
                     ELSE ret' = NoRet /\ calls'[s].op = "refresh" /\ calls'[s].pc = "http"
             /\ ( /\ calls[s].pc = "put"
                  /\ "updateDebtStatus:error" \in io'
                  /\ UpdateDebtStatusDone(s) ) =>
                     ret' = UpdateRet(FALSE) /\ calls'[s] = NoCall]_vars

\* ensureProject has resolved to null although the folder is open: the
\* resolution it awaited ended with a failed createProject
PublicCallsNeverRejectWitness ==
    /\ ret = EnsureRet(Null)
    /\ Len(workspaceFolders) = 1
    /\ ensuringProject = "none"
    /\ workspaceProjectId = Null

\* the severity the specification gives to a backend severity value
CanonicalSeverity(sev) ==
    IF StrLower(sev) \in {"low", "medium", "high", "critical"} THEN StrLower(sev)
    ELSE "low"

\* C16: the severity mapping is total.  Whatever severity a backend record
\* carries (one of the four in any case, the empty string, none, or another
\* word), the FileDebt a successful fetch stores has one of low, medium,
\* high, critical: the case-folded input when that is one of the four, and
\* low otherwise.
SeverityMappingTotal ==
    [][\A s \in Slots :
          ( /\ calls[s].pc = "http"
            /\ "getFileDebts:ok" \in io'
            /\ FetchRespond(s) ) =>
               LET resp == calls[s].resp
                   stored == MapGet(cache', calls[s].key).debts
               IN /\ Len(stored) = Len(resp)
                  /\ \A i \in 1..Len(resp) :
                        /\ stored[i].severity \in {"low", "medium", "high", "critical"}
                        /\ stored[i].severity = CanonicalSeverity(resp[i].severity)]_vars

\* a debt is stored as low although the gateway handed over "blocker", the
\* lower-case form of what the backend sent
SeverityMappingTotalWitness ==
    /\ \E i \in 1..Len(cache) :
          Len(cache[i].debts) = 1 /\ cache[i].debts[1].severity = "low"
    /\ \E e \in svcCache : Len(e.data) = 1 /\ e.data[1].severity = "blocker"

\* how often the debt d occurs in the sequence list
TimesIn(list, d) == Cardinality({i \in 1..Len(list) : list[i] = d})

\* how often the debt d occurs in the entries of the Map m
TimesCached(m, d) ==
    Cardinality({ij \in UNION {{<<i, j>> : j \in 1..Len(m[i].debts)} : i \in 1..Len(m)} :
                    m[ij[1]].debts[ij[2]] = d})

AllViewsFollowChange ==
    [][fired' >= 1 =>
          /\ "tree" \in notified'
          /\ "lens" \in notified'
          /\ (enabled /\ activeEditor # Null) =>
                \/ "decorator" \in notified'
                \/ \E s \in Slots : cont'[s] = "decorator"]_vars

\* C14: bounded request volume.  With the views wired as in activate() and
\* no user command in between, a debt request for a file is sent only when
\* none was sent for it before or the last one is at least one TTL old,
\* whatever the gateway has answered: the answer to a request, success or
\* error, never leads to another request for the file inside the TTL window
\* (two scans that wait for their answers at the same time are left aside).
BoundedRequestVolume ==
    [][\A f \in Files :
          ( /\ SentFor(f)
            /\ requested[f] >= 0
            /\ \A s \in Slots :
                  calls[s].pc = "http" => calls[s].filePath # FsPath(platform, f)
            /\ command.pc # "refresh"
            /\ enabled' = enabled ) =>
               now - requested[f] >= ttlMs]_vars

\* C18: whenever a mark-status command has completed after updateDebtStatus
\* returned true, it has made a forced rescan of the file of its debt,
\* whatever the active editor and the decorator's enabled flag are.
MarkDebtRescans ==
    (command.pc = "done" /\ command.ok) =>
       command.scanned = FileOfDebtId(command.debt[1].id)

\* a mark-status command has completed after an accepted update without any
\* rescan: the decorator is switched off while the file of the debt is in
\* the active editor
MarkDebtWithoutRescan ==
    /\ command.pc = "done"
    /\ command.ok
    /\ command.scanned = Null
    /\ ~enabled
    /\ activeEditor = FileOfDebtId(command.debt[1].id)

\* C19: provideCodeLenses is a read-only consumer.  For every document of
\* scheme "file" and every state of the Map it reads getCachedFileDebts and
\* nothing else: no gateway call, no event, no scan or project resolution
\* started, the Map and the gateway cache unchanged; for a document without
\* an entry, or with an empty one, it returns the single scan lens.
LensesAreReadOnly ==
    [][\A doc \in {d \in Documents(platform) : d.scheme = "file"} :
          (ret'.op = "getCachedFileDebts" /\ ProvideCodeLenses(doc)) =>
             /\ io' = {}
             /\ fired' = 0
             /\ UNCHANGED <<cache, svcCache, calls, workspaceProjectId,
                            ensuringProject, resolver, epoch, backendDebts, cont>>
             /\ ret'.list = StoredList(cache, doc.fsPath)
             /\ StoredList(cache, doc.fsPath) = <<>> => lenses' = <<ScanLens>>
             /\ StoredList(cache, doc.fsPath) # <<>> =>
                   lenses'[1].command = "technicalDebt.showFileDebts"]_vars

\* the provider has returned the single scan lens for a document without
\* an entry while the Map holds the entry of another file
LensesAreReadOnlyWitness ==
    /\ ret.op = "getCachedFileDebts"
    /\ ret.list = <<>>
    /\ lenses = <<ScanLens>>
    /\ Len(cache) = 1

\* C20: the tree is a two-state machine.  Its mode starts as FILE, is
\* always FILE or WORKSPACE, and changes only in a step of the
\* switchViewMode command (setViewMode): refresh(), getChildren, change
\* events and editor events leave it as it is.
ViewModeMachine ==
    /\ viewMode = "FILE"
    /\ [](viewMode \in {"FILE", "WORKSPACE"})
    /\ [][viewMode' # viewMode =>
             \E target \in {Null, "FILE", "WORKSPACE"} : SwitchViewMode(target)]_vars

\* in WORKSPACE mode getChildren has asked for the project and the mode is
\* still WORKSPACE
ViewModeMachineWitness ==
    /\ viewMode = "WORKSPACE"
    /\ ret.op = "ensureProject"
    /\ "tree" \notin stale

\* a fetch of the entry of key k has ended well in the step: the answer to
\* the request of a suspended call has come, or DebtService has answered the
\* call from its stored responses
FetchedWell(k) ==
    \/ \E s \in Slots : /\ calls[s].pc = "http"
                        /\ calls[s].key = k
                        /\ "getFileDebts:ok" \in io'
    \/ /\ "getFileDebts" \in io'
       /\ \E e \in svcCache \cup svcCache', f \in Files :
             /\ k = normalizePath(FsPath(platform, f))
             /\ e.key[2] = resolvePathForRequest(platform, workspaceFolders,
                                                 FsPath(platform, f)).request

\* C24: the CacheEntry invariant.  An entry appears, or its fetchedAt
\* changes, only in a step in which a fetch of its key ends well, and it is
\* then stamped with the time of that step; fetchedAt of a key never
\* decreases; a fetch that fails leaves no entry of its key.
CacheEntryInvariant ==
    [][\A k \in MapKeys(cache) \cup MapKeys(cache') :
          /\ ( /\ MapHas(cache', k)
               /\ ~MapHas(cache, k) \/ MapGet(cache', k).fetchedAt # MapGet(cache, k).fetchedAt )
                => /\ FetchedWell(k)
                   /\ MapGet(cache', k).fetchedAt = now
                   /\ now' = now
          /\ (MapHas(cache, k) /\ MapHas(cache', k)) =>
                MapGet(cache', k).fetchedAt >= MapGet(cache, k).fetchedAt
          /\ \A s \in Slots :
                ( /\ calls[s].pc = "http"
                  /\ calls[s].key = k
                  /\ "getFileDebts:error" \in io'
                  /\ FetchRespond(s) ) => ~MapHas(cache', k)]_vars

\* an entry stored at minute 0 has been fetched again a minute later and
\* carries the later stamp
CacheEntryInvariantWitness ==
    /\ now = 1
    /\ "getFileDebts:ok" \in io
    /\ Len(cache) = 1
    /\ cache[1].fetchedAt = 1
    /\ \E e \in svcCache : e.timestamp = 1

\* the DebtItems the gateway makes of the answer the suspended call c gets
AnswerItems(c) ==
    svcNormalize(platform, workspaceFolders,
                 [i \in 1..Len(c.resp) |-> apiMapFileDebt(c.resp[i], c.pid)],
                 c.lookup[1].absolute)

\* C25: concurrent scans of the same file are not coalesced and the last
\* fetch to complete wins.  A scanFile call that misses the Map while another
\* scan of the same file waits for its answer makes its own gateway call
\* (its own request, unless the gateway holds a stored response); and
\* whenever the answer to a scan comes, whichever call started first and
\* whatever an earlier answer has left, the Map then holds the outcome of
\* that answer: its list, or no entry if it failed.
LastFetchWins ==
    [][\A s \in Slots :
          /\ ( /\ calls[s].op = "scan"
               /\ calls[s].pc = "http"
               /\ FetchRespond(s) ) =>
                  IF "getFileDebts:ok" \in io'
                  THEN /\ MapHas(cache', calls[s].key)
                       /\ MapGet(cache', calls[s].key).debts =
                             mapFileDebts(platform, workspaceFolders,
                                          AnswerItems(calls[s]), calls[s].filePath)
                       /\ ret'.list = MapGet(cache', calls[s].key).debts
                  ELSE ~MapHas(cache', calls[s].key)
          /\ \A f \in Files, forceRefresh \in BOOLEAN :
                ( /\ \E t \in Slots : /\ t # s
                                      /\ calls[t].pc = "http"
                                      /\ calls[t].key = normalizePath(FsPath(platform, f))
                  /\ ~servesFromCache(cache, normalizePath(FsPath(platform, f)),
                                      forceRefresh, now)
                  /\ started' = started + 1
                  /\ ScanFileCall(s, DocOf(f), forceRefresh) ) =>
                     /\ "getFileDebts" \in io'
                     /\ svcCache = {} =>
                           /\ "http.getFileDebts" \in io'
                           /\ calls'[s].pc = "http"
                           /\ calls'[s].key = normalizePath(FsPath(platform, f))
                           /\ \E t \in Slots : t # s /\ calls'[t] = calls[t]
                                                /\ calls'[t].pc = "http"]_vars

\* both scans of file a have been answered: the first answer was a list,
\* which the gateway still holds, the last one was an error, and the Map has
\* no entry
LastFetchWinsWitness ==
    /\ \A s \in Slots : calls[s] = NoCall
    /\ started = 0
    /\ io = {"getFileDebts:error"}
    /\ cache = <<>>
    /\ \E e \in svcCache : Len(e.data) = 2

\* the elements of a sequence
Elements(q) == {q[i] : i \in 1..Len(q)}

\* what a step of the refreshAllCached call of place s shows, when the loop
\* had the keys `visit` before it, `answered` is the key whose fetch was
\* answered in the step (<<>>: none) and forceRescan is the call's argument
RefreshedAsWanted(s, forceRescan, visit, answered) ==
    LET inflight == calls'[s].pc = "http"
        key == calls'[s].key
    IN /\ inflight \/ ret'.op = "refreshAllCached"
       /\ inflight =>
             /\ calls'[s].op = "refresh"
             /\ MapHas(cache', key)
             /\ forceRescan \/ now - MapGet(cache', key).fetchedAt >= ttlMs
       /\ \A k \in visit :
             \/ k \in Elements(calls'[s].pending)
             \/ inflight /\ k = key
             \/ ~MapHas(cache', k)
             \/ IF forceRescan
                THEN MapGet(cache', k).fetchedAt = now
                ELSE now - MapGet(cache', k).fetchedAt < ttlMs
       /\ ~forceRescan =>
             \A k \in visit \ {answered} :
                (MapHas(cache, k) /\ now - MapGet(cache, k).fetchedAt < ttlMs) =>
                   /\ MapHas(cache', k)
                   /\ MapGet(cache', k) = MapGet(cache, k)
                   /\ ~(inflight /\ k = key)
       /\ MapKeys(cache') \subseteq MapKeys(cache) \cup {answered}

\* C26: refreshAllCached(forceRescan) fetches again, one key after another,
\* every cached key when forceRescan is true and exactly the keys past their
\* TTL when it is false.  In every step of a refreshAllCached call: the one
\* request it has in flight is for a key that has an entry, and one past its
\* TTL unless forced; every key the loop has passed is gone, stamped now
\* (forced) or inside its TTL (not forced); without force an entry inside
\* its TTL is left as it was; the step adds no key to the Map beyond the one
\* whose fetch it was answered; and a key whose fetch failed has no entry and
\* is on no refresh call's way.
RefreshVisitsCachedKeys ==
    [][\A s \in Slots :
          /\ \A forceRescan \in BOOLEAN :
                ( /\ calls[s].op = "idle"
                  /\ started' = started + 1
                  /\ ret'.op = "refreshAllCached" \/ calls'[s].op = "refresh"
                  /\ RefreshAllCachedCall(s, forceRescan) ) =>
                     RefreshedAsWanted(s, forceRescan, MapKeys(cache), <<>>)
          /\ ( /\ calls[s].op = "refresh"
               /\ calls[s].pc = "http"
               /\ AnswerShows
               /\ FetchRespond(s) ) =>
                  /\ RefreshedAsWanted(s, calls[s].force, Elements(calls[s].pending),
                                       calls[s].key)
                  /\ "getFileDebts:error" \in io' =>
                        /\ ~MapHas(cache', calls[s].key)
                        /\ \A t \in Slots :
                              calls[s].key \notin Elements(calls'[t].pending)]_vars

\* a refresh without force has ended at minute 2: the entry of minute 0 was
\* fetched again with a request, the entry of minute 1 was left as it was
RefreshVisitsCachedKeysWitness ==
    /\ now = 2
    /\ ret.op = "refreshAllCached"
    /\ "getFileDebts:ok" \in io
    /\ Len(cache) = 2
    /\ {cache[1].fetchedAt, cache[2].fetchedAt} = {1, 2}

\* C27: every FileDebt in the Map has a line that is a number and is at
\* least 1, whatever line values the backend record carried.
StoredLinesAreNumbers ==
    \A i \in 1..Len(cache) :
       \A j \in 1..Len(cache[i].debts) :
          /\ cache[i].debts[j].line # NaN
          /\ cache[i].debts[j].line >= 1

\* the Map holds a debt whose line is not a number: the record came with
\* metadata whose location carries a line that is no number
LineNotANumber ==
    /\ Len(cache) = 1
    /\ Len(cache[1].debts) = 1
    /\ cache[1].debts[1].line = NaN
    /\ \E e \in svcCache : /\ e.data[1].metadata.location
                            /\ e.data[1].metadata.locationLine = "abc"

\* the line the fallback chain of the specification gives to a record:
\* the explicit line, else metadata.location.line, else metadata.line, else 1
ExplicitFirst(r) ==
    IF r.line # Null THEN Number(r.line)
    ELSE IF r.metadata.object /\ r.metadata.location /\ r.metadata.locationLine # Null
    THEN Number(r.metadata.locationLine)
    ELSE IF r.metadata.object /\ r.metadata.line # Null THEN Number(r.metadata.line)
    ELSE 1

\* C28: the line-number fallback chain.  For a record whose line values are
\* each missing or a line number, the FileDebt a successful fetch stores has
\* the explicit line when there is one, else metadata.location.line, else
\* metadata.line, else 1.
LineFallbackChain ==
    [][\A s \in Slots :
          ( /\ calls[s].pc = "http"
            /\ "getFileDebts:ok" \in io'
            /\ Len(calls[s].resp) = 1
            /\ {calls[s].resp[1].line, calls[s].resp[1].metadata.locationLine,
                 calls[s].resp[1].metadata.line} \subseteq {Null, "3", "10", "20"}
            /\ FetchRespond(s) ) =>
               MapGet(cache', calls[s].key).debts[1].line = ExplicitFirst(calls[s].resp[1])]_vars

\* C29: every FileDebt stored in the cache has one of the four statuses of
\* the interface, whatever status string the backend returns
StoredStatusesAreCanonical ==
    \A i \in 1..Len(cache) : \A j \in 1..Len(cache[i].debts) :
        cache[i].debts[j].status \in DebtStatuses

\* a record whose status is no status of the backend has been stored
UnknownStatusStored ==
    \E i \in 1..Len(cache) : \E j \in 1..Len(cache[i].debts) :
        cache[i].debts[j].status = "closed"

\* C30: when the gateway accepts an update of a debt to status s, the value
\* the backend receives is never wont_fix (wont_fix is sent as ignored, the
\* others unchanged) and the from-server mapping takes it back to s
StatusRoundTrip ==
    [][\A s \in Slots :
          (/\ calls[s].pc = "put"
           /\ ret'.op = "updateDebtStatus"
           /\ ret'.ok
           /\ UpdateDebtStatusDone(s))
          => LET f == FileOfDebtId(calls[s].debt[1].id)
                 sent == backendDebts'[f]
             IN /\ sent # "wont_fix"
                /\ sent = (IF calls[s].status = "wont_fix" THEN "ignored"
                           ELSE calls[s].status)
                /\ mapStatusFromServer(sent) = calls[s].status]_vars

\* the gateway has accepted an update to wont_fix and the backend holds ignored
StatusRoundTripWitness ==
    /\ ret.op = "updateDebtStatus"
    /\ ret.ok
    /\ backendDebts["a"] = "ignored"
    /\ started = 2

\* the cycles of the refresh timer that are under way: a callback awaits
\* refreshAllCached or the scan of refreshActiveEditor, or is about to go on
CyclesUnderWay ==
    Cardinality({s \in Slots : cont[s] \in {"timer", "timerScan"}})
    + (IF timerReady THEN 1 ELSE 0)

\* C22: at most one cycle of the refresh timer is under way at any moment
\* and the running flag is set exactly while one is (it is reset when the
\* cycle ends, whether the cycle completed or threw); a tick that comes
\* while a cycle is running starts no refreshAllCached and changes nothing;
\* a tick that comes when no cycle is running, with a workspace folder
\* open, starts a cycle
AutoRefreshOverlapGuard ==
    [][/\ CyclesUnderWay' <= 1
       /\ autoRefreshRunning' <=> (CyclesUnderWay' = 1)
       /\ (autoRefreshRunning /\ started' = started + 1 /\ TimerFires)
             => /\ calls' = calls
                /\ io' = {}
                /\ cache' = cache
                /\ cont' = cont
       /\ (~autoRefreshRunning /\ Len(workspaceFolders) > 0
             /\ started' = started + 1 /\ TimerFires)
             => /\ autoRefreshRunning'
                /\ \/ ret'.op = "refreshAllCached"
                   \/ \E s \in Slots : calls[s].op = "idle" /\ calls'[s].op = "refresh"]_vars

\* a cycle has ended, the lenses have been refreshed, and the next tick has
\* started a new cycle
AutoRefreshOverlapGuardWitness ==
    /\ autoRefreshRunning
    /\ started = 2
    /\ "lens" \in stale
    /\ CyclesUnderWay = 1

\* C23: setEnabled(false) clears the decorations of every editor in the same
\* step and calls no scanFile; a refreshActiveEditor call made while the
\* decorator is disabled (after a change of the active editor, after a
\* mark-status command) calls no scanFile and applies no decorations;
\* setEnabled(true) refreshes the active editor: it calls scanFile for its
\* document and applies the list when the scan has returned, or awaits it
SetEnabledContract ==
    [][/\ (enabled /\ ~enabled')
            => /\ decorations' = NoDecorations
               /\ calls' = calls
               /\ io' = {}
               /\ "decorator" \notin notified'
       /\ (~enabled /\ enabled')
            => IF activeEditor = Null
               THEN calls' = calls /\ decorations' = decorations
               ELSE \/ /\ ret'.op = "scanFile"
                       /\ "decorator" \in notified'
                       /\ decorations'[activeEditor] =
                             apply(decorations[activeEditor], ret'.list,
                                   lineCount(FsPath(platform, activeEditor)))
                    \/ \E s \in Slots :
                          /\ calls[s].op = "idle"
                          /\ calls'[s].op = "scan"
                          /\ calls'[s].filePath = FsPath(platform, activeEditor)
                          /\ cont'[s] = "decorator"
       /\ (~enabled /\ ~enabled'
             /\ (MarkDebtRefresh \/ \E f \in Files : ChangeActiveEditor(f)))
            => /\ calls' = calls
               /\ ret'.op # "scanFile"
               /\ io' = {}
               /\ decorations' = decorations
               /\ "decorator" \notin notified']_vars

\* the decorator has been disabled and enabled again, and enabling it has
\* decorated the active editor from the cached list
SetEnabledContractWitness ==
    /\ enabled
    /\ activeEditor # Null
    /\ notified = {"decorator"}
    /\ decorations[activeEditor] # <<>>

\* the step has seen the project resolution or a debt fetch fail: ensureProject
\* has given no id to getWorkspaceDebts, the project's debt request has been
\* answered with an error, or the scan of getFileRootItems has come back empty
TreeSawFailure ==
    \/ tree.pc = "ready" /\ ~Truthy(tree.pid)
    \/ "getProjectDebts:error" \in io'
    \/ ret'.op = "scanFile" /\ ret'.list = <<>>

EntriesOfFile(m, f) ==
    SelectSeq(m, LAMBDA e : e.filePath \in SpellingsOf[f])

\* normalizePath applied twice is normalizePath applied once, and all the
\* spellings of the path of a file have one key
NormalizedOnce ==
    \A plat \in {"win32", "linux"} :
       /\ \A p \in PathCorners \cup UNION {PathSpellings(plat, f) : f \in Files} :
             normalizePathOn(plat, normalizePathOn(plat, p)) = normalizePathOn(plat, p)
       /\ \A f \in Files : \A p \in PathSpellings(plat, f) :
             normalizePathOn(plat, p) = normalizePathOn(plat, FsPath(plat, f))

\* C31: the path normalisation of the cache keys is idempotent and gives
\* every spelling of a path (slash or backslash, repeated and trailing
\* separators, letter case on win32) the same key; so the entry a scan has
\* written for a file is what getCachedDebtsByPath returns, and what an
\* accepted updateDebtStatus deletes, under every spelling of its path
SpellingsShareKey ==
    /\ []NormalizedOnce
    /\ [][
       /\ \A f \in Files :
             /\ Len(EntriesOfFile(cache, f)) <= 1
             /\ (/\ ret'.op = "getCachedDebtsByPath"
                 /\ ret'.list # IF Len(EntriesOfFile(cache, f)) = 1
                                 THEN EntriesOfFile(cache, f)[1].debts
                                 ELSE <<>>)
                   => \A filePath \in SpellingsOf[f] : ~GetCachedDebtsByPath(filePath)
       /\ \A s \in Slots :
             (calls[s].op = "update" /\ "updateDebtStatus:ok" \in io'
                                     /\ UpdateDebtStatusDone(s)) =>
                LET f == FileOfDebtId(calls[s].debt[1].id)
                IN /\ calls[s].debt[1].filePath \in SpellingsOf[f]
                   /\ Len(EntriesOfFile(cache', f)) = 0
                   /\ \A g \in Files \ {f} : EntriesOfFile(cache', g) = EntriesOfFile(cache, g)]_vars

\* a read by path has returned the debts of an entry that a scan has
\* written for a file opened under another spelling than its key
SpellingsShareKeyWitness ==
    /\ ret.op = "getCachedDebtsByPath"
    /\ ret.list # <<>>
    /\ \E i \in 1..Len(cache) :
          /\ cache[i].debts = ret.list
          /\ cache[i].filePath # cache[i].key
          /\ cache[i].filePath # FsPath(platform, "a")
          /\ cache[i].filePath # FsPath(platform, "B")

\* the debts of the list whose zero-based line is below the line count
BelowEnd(debts, lines) ==
    SelectSeq(debts, LAMBDA d : zeroBased(d.line) # NaN /\ zeroBased(d.line) < lines)

\* the commands of the three action lenses
ActionCommands ==
    <<"technicalDebt.markDebt.inProgress", "technicalDebt.markDebt.resolved",
      "technicalDebt.markDebt.ignored">>

\* C32: for a document with a non-empty cached list provideCodeLenses yields
\* one summary lens at line 0 whose counts by severity sum to the number of
\* cached debts, and exactly three action lenses (in progress, resolved,
\* ignored) for each cached debt whose zero-based line is below the line
\* count of the document, at that line and with that debt as argument; a
\* debt past the end gets no lens
LensesMatchDebts ==
    [][\A doc \in FileDocuments(platform) :
          (ret'.op = "getCachedFileDebts" /\ ret'.list # <<>> /\ ProvideCodeLenses(doc)) =>
             LET debts == StoredList(cache, doc.fsPath)
                 shown == BelowEnd(debts, lineCount(doc.fsPath))
                 summary == lenses'[1]
             IN /\ ret'.list = debts
                /\ summary.line = 0
                /\ summary.command = "technicalDebt.showFileDebts"
                /\ summary.counts["low"] + summary.counts["medium"]
                   + summary.counts["high"] + summary.counts["critical"] = Len(debts)
                /\ Len(lenses') = 1 + 3 * Len(shown)
                /\ \A i \in 1..Len(shown) : \A j \in 1..3 :
                      LET lens == lenses'[1 + 3 * (i - 1) + j]
                      IN /\ lens.line = zeroBased(shown[i].line)
                         /\ lens.command = ActionCommands[j]
                         /\ lens.arg = <<shown[i]>>]_vars

\* the provider has returned action lenses at a line that is no number, for
\* a cached debt whose line is no number
LensAtNoLine ==
    /\ ret.op = "getCachedFileDebts"
    /\ \E i \in 1..Len(lenses) : lenses[i].line = NaN
    /\ \E i \in 1..Len(ret.list) : ret.list[i].line = NaN

\* the decorations the editor of a file of `lines` lines shows after apply()
\* has been given the debts: every debt whose zero-based line is at or past
\* the line count is left out, every other debt has one decoration, of its
\* severity and at its zero-based line, and nothing of an earlier apply stays
Placed(debts, lines) ==
    LET others == SelectSeq(debts, LAMBDA d :
                     ~(zeroBased(d.line) # NaN /\ zeroBased(d.line) >= lines))
    IN [i \in 1..Len(others) |->
           [severity |-> others[i].severity, line |-> zeroBased(others[i].line)]]

\* the decorations of file f are those of the debts, all on lines of the
\* document
AppliedWell(f, debts) ==
    /\ decorations'[f] = Placed(debts, lineCount(FsPath(platform, f)))
    /\ \A i \in 1..Len(decorations'[f]) :
          /\ decorations'[f][i].line # NaN
          /\ decorations'[f][i].line >= 0
          /\ decorations'[f][i].line < lineCount(FsPath(platform, f))

\* C33: apply never touches a line outside the document: a debt whose
\* zero-based line is at or past the line count is skipped without a throw,
\* every other debt is placed in the bucket of its severity at its
\* zero-based line, and all four decoration types are set, so that a bucket
\* without debts is cleared
ApplySkipsStaleLines ==
    [][/\ \A s \in Slots :
             (calls[s].pc = "http" /\ cont[s] = "decorator" /\ ScanAnswered(s)) =>
                AppliedWell(FileOfPath(calls[s].filePath), ret'.list)
       /\ \A f \in Files :
             (ret'.op = "scanFile" /\ activeEditor' = f /\ ChangeActiveEditor(f)) =>
                AppliedWell(f, ret'.list)]_vars

\* the scan has returned a debt whose line is no number and the editor
\* still shows the decoration of the earlier scan: apply has thrown at
\* lineAt before it set any decoration type
ApplyThrewOnNoLine ==
    /\ ret.op = "scanFile"
    /\ \E i \in 1..Len(ret.list) : ret.list[i].line = NaN
    /\ activeEditor # Null
    /\ decorations[activeEditor] = <<[severity |-> "medium", line |-> 0]>>

\* the absolute path a project debt resolves to
ResolvedPathOf(d) ==
    resolveWorkspacePath(platform, workspaceFolders, d.filePath).absolutePath

\* the rank (0: critical .. 3: low) of the worst debt of the list that
\* resolves to the path
WorstRank(list, path) ==
    CHOOSE r \in 0..3 :
       /\ \E i \in 1..Len(list) : /\ ResolvedPathOf(list[i]) = path
                                  /\ severityIndex(list[i].severity) = r
       /\ \A i \in 1..Len(list) : ResolvedPathOf(list[i]) = path
                                     => severityIndex(list[i].severity) >= r

\* the path by which a file item is ordered: the path below the workspace
\* root, or the absolute path
OrderName(path) ==
    LET relative == resolveWorkspacePath(platform, workspaceFolders, path).relativePath
    IN IF Len(relative) > 0 THEN relative ELSE path

\* the items are the switch to FILE mode and then, for a list that is not
\* empty, one file item per resolved path with the number of the debts that
\* resolve to it, ordered by worst severity and then by path
GroupedAndOrdered(items, list) ==
    LET files == SubSeq(items, 2, Len(items))
    IN /\ items[1] = ViewSwitcherTreeItem("FILE")
       /\ Len(list) = 0 => files = <<EmptyTreeItem>>
       /\ Len(list) > 0 =>
             /\ \A k \in 1..Len(files) :
                   /\ files[k].type = "file"
                   /\ files[k].debtCount > 0
                   /\ files[k].debtCount =
                         Cardinality({i \in 1..Len(list) :
                                         ResolvedPathOf(list[i]) = files[k].label})
                   /\ \A l \in 1..Len(files) : files[l].label = files[k].label => l = k
             /\ \A i \in 1..Len(list) :
                   \E k \in 1..Len(files) : files[k].label = ResolvedPathOf(list[i])
             /\ \A k \in 1..(Len(files) - 1) :
                   LET a == files[k].label
                       b == files[k + 1].label
                   IN \/ WorstRank(list, a) < WorstRank(list, b)
                      \/ /\ WorstRank(list, a) = WorstRank(list, b)
                         /\ localeCompare(OrderName(a), OrderName(b)) <= 0

\* the list of project debts the returning getChildren call has got from
\* getWorkspaceDebts: the answer of the backend, the stored response, or
\* nothing when there is no project id or the request has failed
ProjectListOfStep ==
    IF tree.pc = "projectDebts"
    THEN IF "getProjectDebts:ok" \in io'
         THEN SvcGet(svcCache', ProjectKey(tree.pid)).data
         ELSE <<>>
    ELSE IF Truthy(tree.pid) THEN SvcGet(svcCache, ProjectKey(tree.pid)).data ELSE <<>>

\* C34: in WORKSPACE mode the root of the tree is built from the project's
\* debt list only: no step of the call changes the FileDebtIndex Map or
\* fires its change event, the items do not depend on what the Map holds,
\* every debt of the list is in exactly one group, that of its resolved
\* absolute path, and the groups are ordered by worst severity (critical
\* first) and then by path
WorkspaceRootFromProjectList ==
    [][/\ (tree.pc \in {"ensure", "ready", "projectDebts"}
           \/ tree'.pc \in {"ensure", "ready", "projectDebts"}) =>
             /\ cache' = cache
             /\ fired' = 0
             /\ io' \cap {"getFileDebts", "http.getFileDebts"} = {}
       /\ (tree.pc \in {"ready", "projectDebts"} /\ tree'.returned # tree.returned) =>
             /\ ~tree'.threw
             /\ GroupedAndOrdered(tree'.children, ProjectListOfStep)]_vars

\* the Map holds the debts of files a and B, the backend has answered the
\* project's request with three debts, two of them of file a under a
\* relative and an absolute path, and the tree shows file B (medium) before
\* file a (low) with two debts
WorkspaceRootFromProjectListWitness ==
    /\ Len(cache) = 2
    /\ io = {"getProjectDebts:ok"}
    /\ tree.returned >= 1
    /\ tree.children = <<ViewSwitcherTreeItem("FILE"),
                         FileTreeItem(FsPath(platform, "B"), 1),
                         FileTreeItem(FsPath(platform, "a"), 2)>>

\* C35: a status update is not undone by an older read.  Once the backend
\* has stored the new status of a debt of a file, the Map never holds for
\* that file a list that was fetched before: every cached debt carries the
\* status the backend holds for it (only updateDebtStatus changes a status
\* here), also when a fetch for the file was in flight during the update
UpdateNotUndone ==
    \A i \in 1..Len(cache) : \A j \in 1..Len(cache[i].debts) :
       cache[i].debts[j].status = backendDebts[FileOfDebtId(cache[i].debts[j].id)]

\* the answer of a fetch that was sent before the update has just been
\* stored: the backend holds "resolved" and the Map holds the debt as open
OlderReadStored ==
    /\ "getFileDebts:ok" \in io
    /\ \E i \in 1..Len(cache) : \E j \in 1..Len(cache[i].debts) :
          /\ cache[i].debts[j].status = "open"
          /\ backendDebts[FileOfDebtId(cache[i].debts[j].id)] = "resolved"

\* C36: a null project result is not sticky.  Whenever no resolution is
\* executing the marker ensuringProject is cleared, so that a call made
\* after a null result starts a fresh resolution
MarkerClearedAtRest == resolver.pc = "idle" => ensuringProject = "none"

\* a call made with the folder open and no resolution executing has
\* returned null at once, without a gateway call: the marker still holds
\* the promise of the earlier call, settled with null
NullResultStuck ==
    /\ ret.op = "ensureProject"
    /\ ret.pid = Null
    /\ io = {}
    /\ Len(workspaceFolders) > 0
    /\ workspaceProjectId = Null
    /\ resolver.pc = "idle"
    /\ ensuringProject = "settled_null"

\* C37: the key of an entry and the paths of its debts agree.  Every debt
\* stored under key K has normalizePath(debt.filePath) = K, whatever
\* file_path the record of the backend carried, so that updateDebtStatus on
\* a debt read from the Map deletes the entry the debt came from
StoredUnderOwnKey ==
    \A i \in 1..Len(cache) : \A j \in 1..Len(cache[i].debts) :
       normalizePath(cache[i].debts[j].filePath) = cache[i].key

\* the only call made was an update of a cached debt, the gateway has
\* accepted it, and the entry the debt was read from is still in the Map
UpdateLeftItsEntry ==
    /\ ret.op = "updateDebtStatus"
    /\ ret.ok
    /\ started = 1
    /\ \E f \in Files :
          /\ backendDebts[f] = "resolved"
          /\ MapHas(cache, normalizePath(FsPath(platform, f)))
          /\ \E d \in CachedDebtSet(cache) : d.id = DebtId(f) /\ d.status = "open"

\* C38: while the inline decorator is disabled no editor shows debt
\* decorations.  From setEnabled(false) to the next setEnabled(true) no
\* non-empty decoration set is on any editor, also when a
\* refreshActiveEditor call was awaiting its scan at setEnabled(false)
DisabledAppliesNothing == ~enabled => \A f \in Files : decorations[f] = <<>>

\* the scan a refreshActiveEditor call was awaiting has been answered while
\* the decorator is disabled, and the decorations of its list are on the editor
AppliedWhileDisabled ==
    /\ ~enabled
    /\ ret.op = "scanFile"
    /\ ret.list # <<>>
    /\ activeEditor # Null
    /\ decorations[activeEditor] # <<>>

\* C39: a forced rescan reads the backend.  The list scanFile(F, true) or
\* refreshAllCached(true) writes to the Map is the backend's list of F at
\* some moment of the call, never an older copy of the gateway's response
\* cache: a call that completes in the step in which it is made writes the
\* list the backend holds in that step
ForcedRescanReadsBackend ==
    [][\A s \in Slots :
          /\ \A f \in Files :
                (ScanFileCall(s, DocOf(f), TRUE) /\ ret'.op = "scanFile") =>
                   cachedDebts(cache', normalizePath(FsPath(platform, f)))
                      = backendFileDebts(backendDebts, f)
          /\ (RefreshAllCachedCall(s, TRUE) /\ ret'.op = "refreshAllCached") =>
                \A f \in Files :
                   MapHas(cache', normalizePath(FsPath(platform, f))) =>
                      cachedDebts(cache', normalizePath(FsPath(platform, f)))
                         = backendFileDebts(backendDebts, f)]_vars

\* a forced scan has written a list to the Map without any request to the
\* backend, and the list is not the one the backend holds
ForcedRescanServedOldCopy ==
    /\ ret.op = "scanFile"
    /\ fired = 1
    /\ "http.getFileDebts" \notin io
    /\ \E f \in Files :
          /\ ret.list = cachedDebts(cache, normalizePath(FsPath(platform, f)))
          /\ ret.list # backendFileDebts(backendDebts, f)

\* at most one interval timer is active, it is the one refreshTimerHandle
\* names, and its period is at least 10 seconds
OneTimerOfTenSeconds ==
    /\ Cardinality(refreshTimer.active) <= 1
    /\ \A x \in refreshTimer.active : refreshTimer.handle = <<x.id>> /\ x.ms >= 10000
    /\ refreshTimer.handle # <<>> => refreshTimer.active # {}

\* scheduleAutoRefresh with setting raw: below `least` no timer is left
\* active, from `least` on the one active timer is new and its period is
\* the setting in whole seconds, raised to 10 seconds
ScheduledFrom(least, raw) ==
    IF raw < least
    THEN refreshTimer'.active = {}
    ELSE /\ Cardinality(refreshTimer'.active) = 1
         /\ \A x \in refreshTimer'.active :
               /\ x \notin refreshTimer.active
               /\ x.ms >= 10000
               /\ x.ms >= floorSeconds(raw) * 1000

\* C40: at most one auto-refresh timer is active at any time.  Every
\* scheduleAutoRefresh call clears the existing timer before it creates a new
\* one; an interval below one second (0, a fraction, a negative number)
\* leaves no timer active, and an interval of one second or more is raised
\* to at least 10 seconds
OneRefreshTimer ==
    /\ []OneTimerOfTenSeconds
    /\ [][\A raw \in RawIntervals :
             ConfigChanged(raw) => ScheduledFrom(10, raw)]_vars

\* the settings have changed while a timer was active: the timer that is
\* active now is the second one created, and it is the only one
OneRefreshTimerWitness ==
    /\ refreshTimer.created = 2
    /\ refreshTimer.handle = <<2>>
    /\ Cardinality(refreshTimer.active) = 1
    /\ \E x \in refreshTimer.active : x.ms = 10000

\* C40 as it is stated: interval 0 leaves no timer, every positive interval
\* gives a timer of at least 10 seconds
OneRefreshTimerAsStated ==
    /\ []OneTimerOfTenSeconds
    /\ [][\A raw \in RawIntervals :
             (raw >= 0 /\ ConfigChanged(raw)) => ScheduledFrom(1, raw)]_vars
====
